---- MODULE Spec2Model ----
(***************************************************************************)
(* Model of the runn step execution engine (operator.go): one operator     *)
(* running its runbook: operator condition, before-hooks, the step loop    *)
(* (step condition, step-fn, loop/until), the deferred after-hooks, and    *)
(* the classification of the outcome by the caller; and of the operators   *)
(* of a run: Load, the selection stages of SelectedOperators (shuffle,     *)
(* shard, sample, random) and the concurrent RunN.                         *)
(***************************************************************************)
EXTENDS Integers, Sequences, FiniteSets, TLC

(***************************************************************************)
(* Bounds of the model.                                                    *)
(***************************************************************************)
MaxSteps == 2       \* a runbook has 0..MaxSteps steps
MaxCount == 2       \* evalCount yields 0..MaxCount
NumBefore == 2      \* number of before-hooks of the operator
NumAfter == 2       \* number of after-hooks of the operator
MaxOps == 3         \* Load finds 0..MaxOps runbooks
MaxPmax == 2        \* the RunParallel option allows 1..MaxPmax concurrent operators
MaxSeed == 5        \* seeds of the pseudo-random sources are 0..MaxSeed
MaxShardN == 3      \* the RunShard option asks for 0..MaxShardN shards
MaxSample == 2      \* the RunSample option asks for 0..MaxSample operators
MaxRandom == 2      \* the RunRandom option asks for 0..MaxRandom operators
MaxMsgs == 2        \* a gRPC request has 0..MaxMsgs messages (ops)
MaxRecv == 2        \* the server sends 0..MaxRecv messages on a stream
MaxRuns == 2        \* a gRPC runner is Run 0..MaxRuns times
MaxCloses == 2      \* a gRPC runner is closed 0..MaxCloses times
MaxFiles == 2       \* a compilation of protos yields 0..MaxFiles files
MaxCalls == 2       \* resolveAllMethodsUsingProtos is called 0..MaxCalls times
MaxInvocations == 2 \* RunN is invoked 1..MaxInvocations times on the same operators
MaxRest == 2        \* a step mapping has 0..MaxRest keys that are not section keys
MaxSections == 2    \* a step mapping has 0..MaxSections of the section keys

(***************************************************************************)
(* Values.  An optional value is <<>> (nil) or <<x>>.                      *)
(***************************************************************************)
None == <<>>
Some(x) == <<x>>

\* errors: nil, or a kind with the place (hook index / step index) it comes
\* from and the list of fmt.Errorf("...: %w") wrappers around it
NoErr == [kind |-> "nil", at |-> 0, wrap |-> <<>>]
Err(kind, at) == [kind |-> kind, at |-> at, wrap |-> <<>>]
Wrap(w, e) == [e EXCEPT !.wrap = <<w>> \o @]

\* keys of the steps in map mode (bk.stepKeys), by position
stepKeys == <<"a", "b", "c", "d">>

\* the shapes of steps the runbooks are built from: which sections the step
\* mapping has (if, loop with or without until, a primary runner, test, dump,
\* bind)
StepShapes ==
  { [cond |-> "",  loop |-> "none",  runner |-> TRUE,  test |-> FALSE, dump |-> FALSE, bind |-> FALSE],
    [cond |-> "c", loop |-> "none",  runner |-> TRUE,  test |-> TRUE,  dump |-> FALSE, bind |-> FALSE],
    [cond |-> "",  loop |-> "none",  runner |-> FALSE, test |-> TRUE,  dump |-> FALSE, bind |-> FALSE],
    [cond |-> "",  loop |-> "none",  runner |-> FALSE, test |-> FALSE, dump |-> FALSE, bind |-> FALSE],
    [cond |-> "",  loop |-> "count", runner |-> FALSE, test |-> FALSE, dump |-> TRUE,  bind |-> TRUE],
    [cond |-> "c", loop |-> "until", runner |-> TRUE,  test |-> TRUE,  dump |-> TRUE,  bind |-> TRUE] }

VARIABLES
  useMap,        \* operator.useMap
  skipTest,      \* operator.skipTest
  cond,          \* operator.cond ("" when the book has no `if`)
  steps,         \* operator.steps: sequence of [key, cond, loop, runner, test, dump, bind]
  appendRet,     \* history: the latest call of AppendStep on a step mapping, nil before
  store,         \* operator.store: [steps, stepMap, loopIndex]
  skipped,       \* operator.skipped
  runResult,     \* operator.runResult: [Err, Skipped]
  pc,            \* position of the run
  i,             \* index of the current step (0-based, as in the code)
  j,             \* loop counter of the current loop
  c,             \* evaluated loop count of the current loop
  k,             \* index of the next hook (0-based)
  rerr,          \* named result of runInternal
  registered,    \* the deferred after-hook function has been registered
  result,        \* runNResult counters [Total, Success, Failure, Skipped]
  captured,      \* capturer events of the operator, in order
  \* history of the run
  beforeCalls,   \* before-hooks invoked, in order
  afterCalls,    \* after-hooks invoked, in order
  begun,         \* steps whose execution began, in order
  fnCount,       \* fnCount[n]: number of step-fn executions of step n
  calls,         \* runners invoked by the latest step-fn execution of the current step
  recordedBy,    \* recordedBy[n]: the mapping last recorded by step n
  evals,         \* expression evaluations of the latest action
  failedStep,    \* the step whose error left the step loop, with that error
  failedHooks,   \* the before-hook that returned an error, the last after-hook that did
  ifResult,      \* what the operator's `if` evaluated to
  skippedSteps,  \* the steps whose `if` evaluated to false
  untilTrue,     \* the iteration of the current step whose `until` evaluated to true
  \* the operators of a run
  bk,            \* the options of Load: [runParallel, runParallelMax, runShuffle,
                 \* runShuffleSeed, runShardN, runShardIndex, runSample, runRandom]
  ops,           \* the operators struct: [ops, pmax, shuffle, shuffleSeed, shardN,
                 \* shardIndex, sample, random]
  opsResult,     \* ops.result: nil, or [Total, Success, Failure, Skipped, RunResults]
  selection,     \* what a call of SelectedOperators produced, nil before
  shards,        \* shards[x]: what SelectedOperators returns with shardIndex = x
  selected,      \* RunN: the selected operators
  rpc,           \* RunN: position of RunN
  next,          \* RunN: number of selected operators the range loop has passed
  sem,           \* RunN: weight held of the semaphore
  ctx,           \* RunN: state of the errgroup's context
  egErr,         \* RunN: the error kept by the errgroup
  status,        \* RunN: status[n] of the goroutine of selected[n]
  goErr,         \* RunN: goErr[n], the error the goroutine of selected[n] returns
  ret,           \* RunN: nil while RunN runs, then what it returned
  closedWith,    \* RunN: the operators running when the deferred Close executed
  failedFF,      \* history: the fail-fast operators whose run failed, in order
  outcome,       \* history: outcome[n] of the run of selected[n]
  runs,          \* number of invocations of RunN on the operators that have ended
  \* the gRPC runner
  rnr,           \* grpcRunner: cc, refc (nil or the connection), mds, protos configured
  conns,         \* conns[n]: how often connection n, the n-th dialed, has been closed
  nrun,          \* number of Runs of the runner so far
  closeRets,     \* history: what the calls of rnr.Close returned, in order
  req,           \* the request of the current (or last) Run
  call,          \* locals and history of the current (or last) Run
  \* proto registration
  GlobalFiles,   \* protoregistry.GlobalFiles: the registered file descriptors
  fds,           \* the files the runner's protos compile to
  compiles,      \* whether the runner's protos compile
  pmds,          \* rnr.mds of the runner that resolves by protos
  protoHist,     \* history: table, registry and error after each call
  par            \* par[p]: the runner p of the runners resolving in parallel

vars == <<useMap, skipTest, cond, steps, appendRet, store, skipped, runResult, pc, i, j, c, k,
          rerr, registered, result, captured, beforeCalls, afterCalls, begun,
          fnCount, calls, recordedBy, evals, failedStep, failedHooks, ifResult,
          skippedSteps, untilTrue, bk, ops, opsResult, selection, shards,
          selected, rpc, next, sem, ctx, egErr, status, goErr, ret, closedWith,
          failedFF, outcome, runs, rnr, conns, nrun, closeRets, req, call, GlobalFiles,
          fds, compiles, pmds, protoHist, par>>

\* the state of one operator's run
single == <<useMap, skipTest, cond, steps, appendRet, store, skipped, runResult, pc, i, j, c, k,
            rerr, registered, result, captured, beforeCalls, afterCalls, begun,
            fnCount, calls, recordedBy, evals, failedStep, failedHooks, ifResult,
            skippedSteps, untilTrue>>

\* the state of the operators of a run, which one operator's run leaves alone
multi == <<bk, ops, opsResult, selection, shards, selected, rpc, next, sem, ctx,
           egErr, status, goErr, ret, closedWith, failedFF, outcome, runs>>

\* the state of a gRPC runner and of the proto registration
grpcRun == <<rnr, conns, nrun, closeRets, req, call>>
protoReg == <<GlobalFiles, fds, compiles, pmds, protoHist, par>>
grpc == <<grpcRun, protoReg>>

config == <<useMap, skipTest, cond, steps, appendRet>>

(***************************************************************************)
(* Store.                                                                  *)
(***************************************************************************)
\* store.recordAsListed: append to steps
storeRecordAsListed(st, v) == [st EXCEPT !.steps = Append(@, v)]

\* store.recordAsMapped: stepMap[k] = v
storeRecordAsMapped(st, key, v) ==
  [st EXCEPT !.stepMap = [x \in (DOMAIN @) \cup {key} |-> IF x = key THEN v ELSE @[x]]]

\* delete(stepMap, key)
deleteKey(m, key) == [x \in (DOMAIN m) \ {key} |-> m[x]]

\* recordAsListed without the removal of the previous iteration's values
recordAsListedNoPop(st, v) == storeRecordAsListed(st, v)

\* operator.recordAsListed
recordAsListed(st, v) ==
  LET st1 == IF st.loopIndex # None /\ st.loopIndex[1] > 0
             THEN [st EXCEPT !.steps = SubSeq(@, 1, Len(@) - 1)]
             ELSE st
  IN storeRecordAsListed(st1, v)

\* recordAsMapped removing the latest entry in every loop iteration, the
\* first included (loopIndex != nil instead of *loopIndex > 0)
recordAsMappedAnyIteration(st, v) ==
  LET st1 == IF st.loopIndex # None /\ Cardinality(DOMAIN st.stepMap) > 0
             THEN [st EXCEPT !.stepMap =
                     deleteKey(@, steps[Cardinality(DOMAIN @)].key)]
             ELSE st
      key == steps[Cardinality(DOMAIN st1.stepMap) + 1].key
  IN storeRecordAsMapped(st1, key, v)

\* operator.recordAsMapped
recordAsMapped(st, v) ==
  LET st1 == IF st.loopIndex # None /\ st.loopIndex[1] > 0
             THEN [st EXCEPT !.stepMap =
                     deleteKey(@, steps[Cardinality(DOMAIN @)].key)]
             ELSE st
      key == steps[Cardinality(DOMAIN st1.stepMap) + 1].key
  IN storeRecordAsMapped(st1, key, v)

\* v[storeStepRunKey] = b on the mapping v
setRun(v, b) == [x \in (DOMAIN v) \cup {"run"} |-> IF x = "run" THEN b ELSE v[x]]

\* skipStep recording the step as run
skipStepAsRun(st) ==
  LET v == setRun(<<>>, TRUE)
  IN IF useMap THEN recordAsMapped(st, v) ELSE recordAsListed(st, v)

\* operator.skipStep
skipStep(st) ==
  LET v == setRun(<<>>, FALSE)
  IN IF useMap THEN recordAsMapped(st, v) ELSE recordAsListed(st, v)

\* operator.record
record(st, v) ==
  LET vv == setRun(v, TRUE)
  IN IF useMap THEN recordAsMapped(st, vv) ELSE recordAsListed(st, vv)

\* the result slots of a store in recording order: the list in list mode, in
\* map mode the entries under the keys of the first len(stepMap) steps
slots(st) ==
  IF useMap
  THEN [n \in 1..Cardinality(DOMAIN st.stepMap) |-> st.stepMap[steps[n].key]]
  ELSE st.steps

\* store.latest: the most recently recorded result
latest(st) == IF Len(slots(st)) = 0 THEN None ELSE Some(slots(st)[Len(slots(st))])

\* store.previous: the result recorded before the latest one
previous(st) == IF Len(slots(st)) < 2 THEN None ELSE Some(slots(st)[Len(slots(st)) - 1])

\* store.toMap: the snapshot given to the expression evaluator
toMap(st) == [steps |-> st.steps, stepMap |-> st.stepMap, loopIndex |-> st.loopIndex]

\* one evaluation of an expression of step n against the snapshot of st; the
\* call sites that add `previous` and `current` to the snapshot pass aug = TRUE
Eval(kind, n, st, aug) ==
  [kind |-> kind, step |-> n, store |-> toMap(st),
   previous |-> IF aug THEN previous(st) ELSE None,
   current |-> IF aug THEN latest(st) ELSE None]

(***************************************************************************)
(* The step-fn.  A phase value r carries the store, the `run` flag, the    *)
(* error returned (done = the step-fn has returned), the runners invoked,  *)
(* the mapping last recorded and the evaluations made.                     *)
(***************************************************************************)
\* the output mapping a primary runner records for step n in iteration li
Output(n, li) == [res |-> [step |-> n, loopIndex |-> li]]

Recorded(r, st) == [r EXCEPT !.st = st, !.rec = latest(st)]

\* the primary runner of the step: expand the request, Run, which records its
\* output exactly once when it succeeds
Primary(r, s, n, po) ==
  IF ~s.runner THEN r
  ELSE LET r1 == [r EXCEPT !.calls = Append(@, "runner"),
                           !.evals = Append(@, Eval("expand", n, r.st, FALSE))]
       IN IF po = "err"
          THEN [r1 EXCEPT !.err = Err("runner failed", n), !.done = TRUE]
          ELSE [Recorded(r1, record(r.st, Output(n, r.st.loopIndex))) EXCEPT !.run = TRUE]

\* the dump runner
Dump(r, s, n, do) ==
  IF r.done \/ ~s.dump THEN r
  ELSE LET r1 == IF ~r.run THEN Recorded(r, record(r.st, <<>>)) ELSE r
           r2 == [r1 EXCEPT !.calls = Append(@, "dump"),
                            !.evals = Append(@, Eval("dump", n, r1.st, TRUE))]
       IN IF do = "err"
          THEN [r2 EXCEPT !.err = Err("dump failed", n), !.done = TRUE]
          ELSE [r2 EXCEPT !.run = TRUE]

\* the bind runner
Bind(r, s, n, bo) ==
  IF r.done \/ ~s.bind THEN r
  ELSE LET r1 == IF ~r.run THEN Recorded(r, record(r.st, <<>>)) ELSE r
           r2 == [r1 EXCEPT !.calls = Append(@, "bind"),
                            !.evals = Append(@, Eval("bind", n, r1.st, FALSE))]
       IN IF bo = "err"
          THEN [r2 EXCEPT !.err = Err("bind failed", n), !.done = TRUE]
          ELSE [r2 EXCEPT !.run = TRUE]

\* the test runner taking no notice of skipTest
TestNoSkip(r, s, n, to) ==
  IF r.done \/ ~s.test THEN r
  ELSE LET r1 == IF ~r.run THEN Recorded(r, record(r.st, <<>>)) ELSE r
           r2 == [r1 EXCEPT !.calls = Append(@, "test"),
                            !.evals = Append(@, Eval("test", n, r1.st, TRUE))]
       IN IF to = "err"
          THEN [r2 EXCEPT !.err = Err("test failed", n), !.done = TRUE]
          ELSE [r2 EXCEPT !.run = TRUE]

\* the test runner
Test(r, s, n, to) ==
  IF r.done \/ ~s.test THEN r
  ELSE IF skipTest
       THEN [(IF ~r.run THEN Recorded(r, skipStep(r.st)) ELSE r) EXCEPT !.done = TRUE]
       ELSE LET r1 == IF ~r.run THEN Recorded(r, record(r.st, <<>>)) ELSE r
                r2 == [r1 EXCEPT !.calls = Append(@, "test"),
                                 !.evals = Append(@, Eval("test", n, r1.st, TRUE))]
            IN IF to = "err"
               THEN [r2 EXCEPT !.err = Err("test failed", n), !.done = TRUE]
               ELSE [r2 EXCEPT !.run = TRUE]

\* the end of the step-fn: a step with no runner at all is invalid
NoRunner(r, n) ==
  IF ~r.done /\ ~r.run
  THEN [r EXCEPT !.err = Err("invalid runner", n), !.done = TRUE]
  ELSE [r EXCEPT !.done = TRUE]

\* stepFn of step s (index n) on store st; po, do, bo, to are the outcomes of
\* the primary, dump, bind and test runners
stepFn(st, s, n, po, do, bo, to) ==
  LET r0 == [st |-> st, run |-> FALSE, err |-> NoErr, done |-> FALSE,
             calls |-> <<>>, rec |-> None, evals |-> <<>>]
  IN NoRunner(Test(Bind(Dump(Primary(r0, s, n, po), s, n, do), s, n, bo), s, n, to), n)

Outcomes == {"ok", "err"}
CondOutcomes(e) == IF e = "" THEN {"true"} ELSE {"true", "false", "err"}

\* the outcomes of a runner of the step: one that the step does not have is
\* not invoked and has nothing to return
OutcomesOf(has) == IF has THEN Outcomes ELSE {"ok"}

\* the outcomes <<primary, dump, bind, test>> of the runners of step s: the
\* step-fn returns at the first error, so no runner after a failed one is
\* invoked, and a skipped test is not run either
RunnerOutcomes(s) ==
  {o \in OutcomesOf(s.runner) \X OutcomesOf(s.dump) \X OutcomesOf(s.bind)
          \X OutcomesOf(s.test /\ ~skipTest) :
     \A x \in 1..3 : o[x] = "err" => \A y \in (x + 1)..4 : o[y] = "ok"}

\* what the `until` of a loop can evaluate to: nothing is evaluated without it
UntilOutcomes(loop) == IF loop = "until" THEN {"true", "false", "err"} ELSE {"false"}

(***************************************************************************)
(* Construction.                                                           *)
(***************************************************************************)
\* operator.AppendStep: the step parsed from a step mapping of shape sh
AppendStep(ss, key, sh) ==
  Append(ss, [key |-> key, cond |-> sh.cond, loop |-> sh.loop, runner |-> sh.runner,
              test |-> sh.test, dump |-> sh.dump, bind |-> sh.bind])

\* New: the key of raw step n (0-based) is its index in list mode and
\* bk.stepKeys[n] in map mode
stepKey(um, n) == IF um THEN stepKeys[n + 1] ELSE ToString(n)

RECURSIVE NewSteps(_, _, _)
NewSteps(um, rawSteps, n) ==
  IF n = 0 THEN <<>>
  ELSE AppendStep(NewSteps(um, rawSteps, n - 1), stepKey(um, n - 1), rawSteps[n])

Books == UNION { [1..n -> StepShapes] : n \in 0..MaxSteps }

(***************************************************************************)
(* The operators of a run: Load and the selection stages.                  *)
(***************************************************************************)
\* the paths of the runbooks Load can find, in the order of sortOperators
Paths == [n \in 1..MaxOps |-> "book" \o ToString(n)]

pathRank(p) == CHOOSE n \in 1..MaxOps : Paths[n] = p

\* New(Book(path), opts...): an operator with its own id
New(path, id, ff) == [bookPath |-> path, id |-> id, failFast |-> ff]

\* sortOperators: by bookPath
RECURSIVE sortOperators(_)
sortOperators(S) ==
  IF S = {} THEN <<>>
  ELSE LET o == CHOOSE x \in S :
                  \A y \in S : pathRank(x.bookPath) <= pathRank(y.bookPath)
       IN <<o>> \o sortOperators(S \ {o})

\* Load: the operators struct of the options b and the operators om built
\* from the runbooks found (one per book path)
Load(b, om) ==
  [ops |-> sortOperators(om),
   pmax |-> IF b.runParallel THEN b.runParallelMax ELSE 1,
   shuffle |-> b.runShuffle, shuffleSeed |-> b.runShuffleSeed,
   shardN |-> b.runShardN, shardIndex |-> b.runShardIndex,
   sample |-> b.runSample, random |-> b.runRandom]

\* operator.bookPathOrID
bookPathOrID(o) == IF o.bookPath # "" THEN o.bookPath ELSE o.id

\* a pseudo-random source in state r: r.Intn(n), and its state afterwards
Intn(r, n) == r % n
Drawn(r, n) == r \div n

swap(s, a, b) == [s EXCEPT ![a] = s[b], ![b] = s[a]]

\* rand.Shuffle with the source in state r: for i := n - 1; i > 0; i--
\* { j := r.Intn(i + 1); swap(i, j) }
RECURSIVE Shuffle(_, _, _)
Shuffle(s, r, x) ==
  IF x <= 0 THEN s
  ELSE Shuffle(swap(s, x + 1, Intn(r, x + 1) + 1), Drawn(r, x + 1), x - 1)

\* shuffleOperators
shuffleOperators(s, seed) == Shuffle(s, seed, Len(s) - 1)

\* partOperators taking the operators in blocks (ii / n == i)
partOperatorsBlocks(all, n, x) ==
  LET F[ii \in 0..Len(all)] ==
        IF ii = 0 THEN <<>>
        ELSE IF (ii - 1) \div n = x THEN Append(F[ii - 1], all[ii]) ELSE F[ii - 1]
  IN F[Len(all)]

\* partOperators: the operators at the indexes ii with ii mod n == i
partOperators(all, n, x) ==
  LET F[ii \in 0..Len(all)] ==
        IF ii = 0 THEN <<>>
        ELSE IF (ii - 1) % n = x THEN Append(F[ii - 1], all[ii]) ELSE F[ii - 1]
  IN F[Len(all)]

\* append(n[:idx], n[idx+1:]...)
removeAt(n, idx) == SubSeq(n, 1, idx) \o SubSeq(n, idx + 2, Len(n))

\* sampleOperators: num draws without replacement, the source seeded with
\* the time
sampleOperators(s, num, seed) ==
  IF Len(s) <= num THEN s
  ELSE LET F[t \in 0..num] ==
             IF t = 0 THEN [sample |-> <<>>, n |-> s, r |-> seed]
             ELSE LET q == F[t - 1]
                      idx == Intn(q.r, Len(q.n))
                  IN [sample |-> Append(q.sample, q.n[idx + 1]),
                      n |-> removeAt(q.n, idx),
                      r |-> Drawn(q.r, Len(q.n))]
       IN F[num].sample

\* randomOperators: num draws with replacement, each building a new operator
\* from the book path drawn; r.Intn(0) panics; failAt = t > 0 is New
\* returning an error in round t
randomOperators(n, num, seed, failAt) ==
  LET F[t \in 0..num] ==
        IF t = 0 THEN [ops |-> <<>>, err |-> NoErr, panic |-> FALSE, r |-> seed]
        ELSE LET q == F[t - 1] IN
             IF q.err # NoErr \/ q.panic THEN q
             ELSE IF Len(n) = 0 THEN [q EXCEPT !.panic = TRUE]
             ELSE IF failAt = t THEN [q EXCEPT !.ops = <<>>, !.err = Err("New", t)]
             ELSE LET o == n[Intn(q.r, Len(n)) + 1] IN
                  [q EXCEPT !.ops = Append(@, New(o.bookPath, MaxOps + t, o.failFast)),
                            !.r = Drawn(q.r, Len(n))]
  IN F[num]

\* SelectedOperators applying the shard stage before the shuffle stage
SelectedOperatorsShardFirst(o, seedS, seedR, failAt) ==
  LET tops1 == IF o.shardN > 0 THEN partOperators(o.ops, o.shardN, o.shardIndex) ELSE o.ops
      tops2 == IF o.shuffle THEN shuffleOperators(tops1, o.shuffleSeed) ELSE tops1
      tops3 == IF o.sample > 0 THEN sampleOperators(tops2, o.sample, seedS) ELSE tops2
      rops == randomOperators(tops3, o.random, seedR, failAt)
  IN IF o.random > 0
     THEN [ops |-> rops.ops, err |-> rops.err, panic |-> rops.panic,
           stages |-> <<o.ops, tops1, tops2, tops3>>]
     ELSE [ops |-> tops3, err |-> NoErr, panic |-> FALSE,
           stages |-> <<o.ops, tops1, tops2, tops3>>]

\* SelectedOperators of the operators struct o: the list returned, the error
\* returned, whether the call panicked, and the lists after the copy and
\* after the stages shuffle, shard and sample
SelectedOperators(o, seedS, seedR, failAt) ==
  LET tops1 == IF o.shuffle THEN shuffleOperators(o.ops, o.shuffleSeed) ELSE o.ops
      tops2 == IF o.shardN > 0 THEN partOperators(tops1, o.shardN, o.shardIndex) ELSE tops1
      tops3 == IF o.sample > 0 THEN sampleOperators(tops2, o.sample, seedS) ELSE tops2
      rops == randomOperators(tops3, o.random, seedR, failAt)
  IN IF o.random > 0
     THEN [ops |-> rops.ops, err |-> rops.err, panic |-> rops.panic,
           stages |-> <<o.ops, tops1, tops2, tops3>>]
     ELSE [ops |-> tops3, err |-> NoErr, panic |-> FALSE,
           stages |-> <<o.ops, tops1, tops2, tops3>>]

\* the options of Load when nothing is asked for
defaultOptions ==
  [runParallel |-> FALSE, runParallelMax |-> 1, runShuffle |-> FALSE,
   runShuffleSeed |-> 0, runShardN |-> 0, runShardIndex |-> 0, runSample |-> 0,
   runRandom |-> 0]

\* no RunN has been called
NoRunN ==
  /\ opsResult = None
  /\ selection = None
  /\ shards = <<>>
  /\ selected = <<>>
  /\ rpc = "idle"
  /\ next = 0
  /\ sem = 0
  /\ ctx = "live"
  /\ egErr = NoErr
  /\ status = <<>>
  /\ goErr = <<>>
  /\ ret = None
  /\ closedWith = None
  /\ failedFF = <<>>
  /\ outcome = <<>>
  /\ runs = 0

\* a runner of newGrpcRunner; protos says whether import paths or protos are
\* configured
newGrpcRunner(protos) == [cc |-> None, refc |-> None, mds |-> {}, protos |-> protos]

\* the locals of a Run and the history of its calls: pc is the position in
\* Run ("idle" outside), ended the result with which the stream ended
noCall ==
  [pc |-> "idle", opIdx |-> 0, d |-> <<>>, messages |-> <<>>, clientClose |-> FALSE,
   err |-> NoErr, ended |-> None, recvd |-> 0, afterEnd |-> FALSE, events |-> <<>>,
   recorded |-> <<>>, ret |-> None, answered |-> None, log |-> <<>>]

\* no gRPC runner has run
NoGrpc ==
  /\ rnr = newGrpcRunner(FALSE)
  /\ conns = <<>>
  /\ nrun = 0
  /\ closeRets = <<>>
  /\ req = [method |-> "missing", messages |-> <<>>, timeout |-> FALSE]
  /\ call = noCall

\* no protos are resolved
NoProtos ==
  /\ GlobalFiles = {}
  /\ fds = <<>>
  /\ compiles = TRUE
  /\ pmds = {}
  /\ protoHist = <<>>
  /\ par = <<>>

marks == <<failedHooks, ifResult, skippedSteps>>

Init ==
  /\ useMap \in BOOLEAN
  /\ skipTest \in BOOLEAN
  /\ cond \in {"", "c"}
  /\ \E rawSteps \in Books : steps = NewSteps(useMap, rawSteps, Len(rawSteps))
  /\ appendRet = None
  /\ store = [steps |-> <<>>, stepMap |-> <<>>, loopIndex |-> None]
  /\ skipped = FALSE
  /\ runResult = [Err |-> NoErr, Skipped |-> FALSE]
  /\ pc = "idle"
  /\ i = 0
  /\ j = 0
  /\ c = 0
  /\ k = 0
  /\ rerr = NoErr
  /\ registered = FALSE
  /\ result = [Total |-> 0, Success |-> 0, Failure |-> 0, Skipped |-> 0]
  /\ captured = <<>>
  /\ beforeCalls = <<>>
  /\ afterCalls = <<>>
  /\ begun = <<>>
  /\ fnCount = [n \in 0..(Len(steps) - 1) |-> 0]
  /\ calls = <<>>
  /\ recordedBy = [n \in 0..(Len(steps) - 1) |-> None]
  /\ evals = <<>>
  /\ failedStep = None
  /\ failedHooks = {}
  /\ ifResult = "none"
  /\ skippedSteps = {}
  /\ untilTrue = None
  /\ bk = defaultOptions
  /\ ops = Load(bk, {})
  /\ NoRunN
  /\ NoGrpc
  /\ NoProtos

(***************************************************************************)
(* RunN, for the operator: start of the operator's goroutine.              *)
(***************************************************************************)
Start ==
  /\ pc = "idle"
  /\ result' = [result EXCEPT !.Total = @ + 1]
  /\ captured' = Append(captured, "start")
  /\ pc' = "cond"
  /\ evals' = <<>>
  /\ UNCHANGED <<marks, config, multi, grpc, store, skipped, runResult, i, j, c, k, rerr, registered,
                 beforeCalls, afterCalls, begun, fnCount, calls, recordedBy,
                 failedStep, untilTrue>>

(***************************************************************************)
(* runInternal.                                                            *)
(***************************************************************************)
\* the operator's `if` without o.skipped = true
OperatorCondNotMarked ==
  /\ pc = "cond"
  /\ \E tf \in CondOutcomes(cond) :
       /\ evals' = IF cond = "" THEN <<>> ELSE <<Eval("operator if", 0, store, FALSE)>>
       /\ ifResult' = IF cond = "" THEN "none" ELSE tf
       /\ CASE tf = "err" ->
                 /\ rerr' = Err("if", 0)
                 /\ pc' = "returned"
            [] tf = "false" ->
                 /\ pc' = "returned"
                 /\ UNCHANGED rerr
            [] OTHER ->
                 /\ pc' = "before"
                 /\ UNCHANGED rerr
  /\ k' = 0
  /\ UNCHANGED <<failedHooks, skippedSteps, config, multi, grpc, store, skipped, runResult, i, j,
                 c, registered, result, captured, beforeCalls, afterCalls, begun,
                 fnCount, calls, recordedBy, failedStep, untilTrue>>

\* the operator's `if`
OperatorCond ==
  /\ pc = "cond"
  /\ \E tf \in CondOutcomes(cond) :
       /\ evals' = IF cond = "" THEN <<>> ELSE <<Eval("operator if", 0, store, FALSE)>>
       /\ ifResult' = IF cond = "" THEN "none" ELSE tf
       /\ CASE tf = "err" ->
                 /\ rerr' = Err("if", 0)
                 /\ pc' = "returned"
                 /\ UNCHANGED skipped
            [] tf = "false" ->
                 /\ skipped' = TRUE
                 /\ pc' = "returned"
                 /\ UNCHANGED rerr
            [] OTHER ->
                 /\ pc' = "before"
                 /\ UNCHANGED <<skipped, rerr>>
  /\ k' = 0
  /\ UNCHANGED <<failedHooks, skippedSteps, config, multi, grpc, store, runResult, i, j, c, registered, result, captured,
                 beforeCalls, afterCalls, begun, fnCount, calls, recordedBy,
                 failedStep, untilTrue>>

\* a before-hook whose error does not end the run
BeforeFuncGoesOn ==
  /\ pc = "before"
  /\ k < NumBefore
  /\ beforeCalls' = Append(beforeCalls, k)
  /\ \E o \in Outcomes :
       IF o = "err"
       THEN /\ rerr' = Err("BeforeFuncError", k)
            /\ failedHooks' = failedHooks \cup {<<"before", k>>}
       ELSE UNCHANGED <<rerr, failedHooks>>
  /\ k' = k + 1
  /\ evals' = <<>>
  /\ UNCHANGED <<ifResult, skippedSteps, config, multi, grpc, store, skipped, runResult, pc, i, j,
                 c, registered, result, captured, afterCalls, begun, fnCount, calls,
                 recordedBy, failedStep, untilTrue>>

\* one before-hook
BeforeFunc ==
  /\ pc = "before"
  /\ k < NumBefore
  /\ beforeCalls' = Append(beforeCalls, k)
  /\ \E o \in Outcomes :
       IF o = "err"
       THEN /\ rerr' = Err("BeforeFuncError", k)
            /\ failedHooks' = failedHooks \cup {<<"before", k>>}
            /\ pc' = "returned"
            /\ UNCHANGED k
       ELSE /\ k' = k + 1
            /\ UNCHANGED <<rerr, pc, failedHooks>>
  /\ evals' = <<>>
  /\ UNCHANGED <<ifResult, skippedSteps, config, multi, grpc, store, skipped, runResult, i, j, c, registered, result,
                 captured, afterCalls, begun, fnCount, calls, recordedBy,
                 failedStep, untilTrue>>

\* all before-hooks succeeded: the after-hook function is deferred and the
\* step loop starts
BeforeDone ==
  /\ pc = "before"
  /\ k = NumBefore
  /\ registered' = TRUE
  /\ pc' = "step"
  /\ i' = 0
  /\ evals' = <<>>
  /\ UNCHANGED <<marks, config, multi, grpc, store, skipped, runResult, j, c, k, rerr, result, captured,
                 beforeCalls, afterCalls, begun, fnCount, calls, recordedBy,
                 failedStep, untilTrue>>

\* the step loop without the return on error
StepReturnsGoesOn(err) ==
  /\ i' = i + 1
  /\ pc' = "step"
  /\ IF err # NoErr
     THEN /\ rerr' = err
          /\ failedStep' = Some([step |-> i, err |-> err])
     ELSE UNCHANGED <<rerr, failedStep>>

\* the step loop receives the result of the closure of step i: an error ends
\* the loop (rerr = err; return), nil goes on to the next step
StepReturns(err) ==
  IF err # NoErr
  THEN /\ rerr' = err
       /\ failedStep' = Some([step |-> i, err |-> err])
       /\ pc' = "defer"
       /\ UNCHANGED i
  ELSE /\ i' = i + 1
       /\ pc' = "step"
       /\ UNCHANGED <<rerr, failedStep>>

\* j and c are locals of the closure of a step: they are gone when it returns
LocalsGone == j' = 0 /\ c' = 0

\* a loop step without the deferred o.store.loopIndex = nil
loopIndexKept(st) == st

\* the deferred o.store.loopIndex = nil of a loop step
loopIndexNil(st) == [st EXCEPT !.loopIndex = None]

\* start of the closure of step i: the step's `if`
StepCond ==
  /\ pc = "step"
  /\ i < Len(steps)
  /\ LET s == steps[i + 1] IN
     /\ begun' = Append(begun, i)
     /\ calls' = <<>>
     /\ untilTrue' = None
     /\ evals' = IF s.cond = "" THEN <<>> ELSE <<Eval("if", i, store, FALSE)>>
     /\ \E tf \in CondOutcomes(s.cond) :
          CASE tf = "err" ->
                 /\ StepReturns(Err("if", i))
                 /\ UNCHANGED <<store, recordedBy, skippedSteps>>
            [] tf = "false" ->
                 /\ store' = skipStep(store)
                 /\ recordedBy' = [recordedBy EXCEPT ![i] = latest(store')]
                 /\ skippedSteps' = skippedSteps \cup {i}
                 /\ StepReturns(NoErr)
            [] OTHER ->
                 /\ pc' = "exec"
                 /\ UNCHANGED <<store, recordedBy, i, rerr, failedStep, skippedSteps>>
  /\ UNCHANGED <<failedHooks, ifResult, config, multi, grpc, skipped, runResult, j, c, k, registered, result, captured,
                 beforeCalls, afterCalls, fnCount>>

\* the history of one step-fn execution r of step i
RanStepFn(r) ==
  /\ fnCount' = [fnCount EXCEPT ![i] = @ + 1]
  /\ calls' = r.calls
  /\ recordedBy' = IF r.rec # None THEN [recordedBy EXCEPT ![i] = r.rec] ELSE recordedBy

\* a step without loop: the step-fn runs once
StepFnOnce ==
  /\ pc = "exec"
  /\ steps[i + 1].loop = "none"
  /\ \E o \in RunnerOutcomes(steps[i + 1]) :
       LET r == stepFn(store, steps[i + 1], i, o[1], o[2], o[3], o[4]) IN
       /\ store' = r.st
       /\ RanStepFn(r)
       /\ evals' = r.evals
       /\ StepReturns(r.err)
  /\ UNCHANGED <<marks, config, multi, grpc, skipped, runResult, j, c, k, registered, result, captured,
                 beforeCalls, afterCalls, begun, untilTrue>>

\* a loop step: evalCount of the loop's count
LoopEnter ==
  /\ pc = "exec"
  /\ steps[i + 1].loop # "none"
  /\ evals' = <<Eval("count", i, store, FALSE)>>
  /\ j' = 0
  /\ \/ \E cc \in 0..MaxCount :
          /\ c' = cc
          /\ pc' = "loop"
          /\ UNCHANGED <<i, rerr, failedStep>>
     \/ /\ StepReturns(Err("count", i))
        /\ c' = 0
  /\ UNCHANGED <<marks, config, multi, grpc, store, skipped, runResult, k, registered, result, captured,
                 beforeCalls, afterCalls, begun, fnCount, calls, recordedBy, untilTrue>>

\* Loop.Loop(ctx): waits for the interval and lets the loop go on
Loop == TRUE

\* the end of an iteration without the break when `until` is true
AfterIterationNoBreak(r, tf) ==
  IF steps[i + 1].loop = "until"
  THEN /\ evals' = Append(r.evals, Eval("until", i, r.st, TRUE))
       /\ CASE tf = "err" ->
                 /\ store' = loopIndexNil(r.st)
                 /\ StepReturns(Wrap("loop failed on", Err("until", i)))
                 /\ LocalsGone
                 /\ UNCHANGED untilTrue
            [] tf = "true" ->
                 /\ store' = r.st
                 /\ untilTrue' = Some([step |-> i, j |-> j, current |-> latest(r.st)])
                 /\ j' = j + 1
                 /\ UNCHANGED <<c, pc, i, rerr, failedStep>>
            [] OTHER ->
                 /\ store' = r.st
                 /\ j' = j + 1
                 /\ UNCHANGED <<c, pc, i, rerr, failedStep, untilTrue>>
  ELSE /\ evals' = r.evals
       /\ store' = r.st
       /\ j' = j + 1
       /\ UNCHANGED <<c, pc, i, rerr, failedStep, untilTrue>>

\* the end of one iteration whose step-fn succeeded as r: the
\* `until` predicate, if any, evaluates to tf
AfterIteration(r, tf) ==
  IF steps[i + 1].loop = "until"
  THEN /\ evals' = Append(r.evals, Eval("until", i, r.st, TRUE))
       /\ CASE tf = "err" ->
                 /\ store' = loopIndexNil(r.st)
                 /\ StepReturns(Wrap("loop failed on", Err("until", i)))
                 /\ LocalsGone
                 /\ UNCHANGED untilTrue
            [] tf = "true" ->
                 /\ store' = loopIndexNil(r.st)
                 /\ untilTrue' = Some([step |-> i, j |-> j, current |-> latest(r.st)])
                 /\ StepReturns(NoErr)
                 /\ LocalsGone
            [] OTHER ->
                 /\ store' = r.st
                 /\ j' = j + 1
                 /\ UNCHANGED <<c, pc, i, rerr, failedStep, untilTrue>>
  ELSE /\ evals' = r.evals
       /\ store' = r.st
       /\ j' = j + 1
       /\ UNCHANGED <<c, pc, i, rerr, failedStep, untilTrue>>

\* the loop breaking on j > c instead of j >= c
LoopIterateOnceMore ==
  /\ pc = "loop"
  /\ Loop
  /\ j <= c
  /\ \E o \in RunnerOutcomes(steps[i + 1]) :
       LET r == stepFn([store EXCEPT !.loopIndex = Some(j)], steps[i + 1], i,
                       o[1], o[2], o[3], o[4]) IN
       /\ RanStepFn(r)
       /\ IF r.err # NoErr
          THEN /\ evals' = r.evals
               /\ store' = loopIndexNil(r.st)
               /\ StepReturns(Wrap("loop failed", r.err))
               /\ LocalsGone
               /\ UNCHANGED untilTrue
          ELSE \E tf \in UntilOutcomes(steps[i + 1].loop) : AfterIteration(r, tf)
  /\ UNCHANGED <<marks, config, multi, grpc, skipped, runResult, k, registered, result, captured,
                 beforeCalls, afterCalls, begun>>

\* one iteration of the loop of step i
LoopIterate ==
  /\ pc = "loop"
  /\ Loop
  /\ j < c
  /\ \E o \in RunnerOutcomes(steps[i + 1]) :
       LET r == stepFn([store EXCEPT !.loopIndex = Some(j)], steps[i + 1], i,
                       o[1], o[2], o[3], o[4]) IN
       /\ RanStepFn(r)
       /\ IF r.err # NoErr
          THEN /\ evals' = r.evals
               /\ store' = loopIndexNil(r.st)
               /\ StepReturns(Wrap("loop failed", r.err))
               /\ LocalsGone
               /\ UNCHANGED untilTrue
          ELSE \E tf \in UntilOutcomes(steps[i + 1].loop) : AfterIteration(r, tf)
  /\ UNCHANGED <<marks, config, multi, grpc, skipped, runResult, k, registered, result, captured,
                 beforeCalls, afterCalls, begun>>

\* the end of the loop with retrySuccess left false when `until` is empty
LoopExitNoRetrySuccess ==
  /\ pc = "loop"
  /\ Loop
  /\ j >= c
  /\ store' = loopIndexNil(store)
  /\ evals' = <<>>
  /\ StepReturns(Wrap("retry loop failed on", Err("is not true", i)))
  /\ LocalsGone
  /\ UNCHANGED <<marks, config, multi, grpc, skipped, runResult, k, registered, result, captured,
                 beforeCalls, afterCalls, begun, fnCount, calls, recordedBy, untilTrue>>

\* the loop ends because the count is reached: without `until` the step
\* succeeds, with `until` (never true) it fails
LoopExit ==
  /\ pc = "loop"
  /\ Loop
  /\ j >= c
  /\ store' = loopIndexNil(store)
  /\ evals' = <<>>
  /\ IF steps[i + 1].loop = "until"
     THEN StepReturns(Wrap("retry loop failed on", Err("is not true", i)))
     ELSE StepReturns(NoErr)
  /\ LocalsGone
  /\ UNCHANGED <<marks, config, multi, grpc, skipped, runResult, k, registered, result, captured,
                 beforeCalls, afterCalls, begun, fnCount, calls, recordedBy, untilTrue>>

\* all steps are done: runInternal returns nil
StepsDone ==
  /\ pc = "step"
  /\ i = Len(steps)
  /\ pc' = "defer"
  /\ evals' = <<>>
  /\ UNCHANGED <<marks, config, multi, grpc, store, skipped, runResult, i, j, c, k, rerr, registered,
                 result, captured, beforeCalls, afterCalls, begun, fnCount, calls,
                 recordedBy, failedStep, untilTrue>>

\* the deferred function starts: set run error and skipped
DeferSetResult ==
  /\ pc = "defer"
  /\ registered
  /\ runResult' = [Err |-> rerr, Skipped |-> skipped]
  /\ k' = 0
  /\ pc' = "after"
  /\ evals' = <<>>
  /\ UNCHANGED <<marks, config, multi, grpc, store, skipped, i, j, c, rerr, registered, result, captured,
                 beforeCalls, afterCalls, begun, fnCount, calls, recordedBy,
                 failedStep, untilTrue>>

\* an after-hook whose error does not replace an earlier after-hook error
AfterFuncFirstErrorWins ==
  /\ pc = "after"
  /\ k < NumAfter
  /\ afterCalls' = Append(afterCalls, k)
  /\ \E o \in Outcomes :
       /\ rerr' = IF o = "err" /\ rerr.kind # "AfterFuncError"
                  THEN Err("AfterFuncError", k) ELSE rerr
       /\ failedHooks' = IF o = "err"
                          THEN {h \in failedHooks : h[1] # "after"} \cup {<<"after", k>>}
                          ELSE failedHooks
  /\ k' = k + 1
  /\ evals' = <<>>
  /\ UNCHANGED <<ifResult, skippedSteps, config, multi, grpc, store, skipped, runResult, pc, i, j,
                 c, registered, result, captured, beforeCalls, begun, fnCount, calls,
                 recordedBy, failedStep, untilTrue>>

\* one after-hook
AfterFunc ==
  /\ pc = "after"
  /\ k < NumAfter
  /\ afterCalls' = Append(afterCalls, k)
  /\ \E o \in Outcomes :
       /\ rerr' = IF o = "err" THEN Err("AfterFuncError", k) ELSE rerr
       /\ failedHooks' = IF o = "err"
                          THEN {h \in failedHooks : h[1] # "after"} \cup {<<"after", k>>}
                          ELSE failedHooks
  /\ k' = k + 1
  /\ evals' = <<>>
  /\ UNCHANGED <<ifResult, skippedSteps, config, multi, grpc, store, skipped, runResult, pc, i, j, c, registered, result,
                 captured, beforeCalls, begun, fnCount, calls, recordedBy,
                 failedStep, untilTrue>>

\* the deferred function ends: runInternal returns rerr
AfterDone ==
  /\ pc = "after"
  /\ k = NumAfter
  /\ pc' = "returned"
  /\ evals' = <<>>
  /\ UNCHANGED <<marks, config, multi, grpc, store, skipped, runResult, i, j, c, k, rerr, registered,
                 result, captured, beforeCalls, afterCalls, begun, fnCount, calls,
                 recordedBy, failedStep, untilTrue>>

(***************************************************************************)
(* RunN, for the operator: the outcome of o.run is counted and captured.   *)
(***************************************************************************)
RunReturns ==
  /\ pc = "returned"
  /\ IF rerr # NoErr
     THEN /\ captured' = captured \o <<"failure", "end">>
          /\ result' = [result EXCEPT !.Failure = @ + 1]
     ELSE IF skipped
          THEN /\ captured' = captured \o <<"skipped", "end">>
               /\ result' = [result EXCEPT !.Skipped = @ + 1]
          ELSE /\ captured' = captured \o <<"success", "end">>
               /\ result' = [result EXCEPT !.Success = @ + 1]
  /\ pc' = "done"
  /\ evals' = <<>>
  /\ UNCHANGED <<marks, config, multi, grpc, store, skipped, runResult, i, j, c, k, rerr, registered,
                 beforeCalls, afterCalls, begun, fnCount, calls, recordedBy,
                 failedStep, untilTrue>>

Next ==
  \/ Start
  \/ OperatorCond
  \/ BeforeFunc
  \/ BeforeDone
  \/ StepCond
  \/ StepFnOnce
  \/ LoopEnter
  \/ LoopIterate
  \/ LoopExit
  \/ StepsDone
  \/ DeferSetResult
  \/ AfterFunc
  \/ AfterDone
  \/ RunReturns

Spec == Init /\ [][Next]_vars

(***************************************************************************)
(* RunN invoked again on the same operators (RequestOne of a load test):   *)
(* the runbook is in list mode.                                            *)
(***************************************************************************)
\* the next RunN: ops.clearResult() gives every operator a new RunResult and
\* the operators a new runNResult; the run of the operator starts over.  The
\* history starts over with it
RunNAgain ==
  /\ pc = "done"
  /\ runs + 1 < MaxInvocations
  /\ runs' = runs + 1
  /\ runResult' = [Err |-> NoErr, Skipped |-> FALSE]
  /\ result' = [Total |-> 0, Success |-> 0, Failure |-> 0, Skipped |-> 0]
  /\ pc' = "idle"
  /\ i' = 0
  /\ j' = 0
  /\ c' = 0
  /\ k' = 0
  /\ rerr' = NoErr
  /\ registered' = FALSE
  /\ captured' = <<>>
  /\ beforeCalls' = <<>>
  /\ afterCalls' = <<>>
  /\ begun' = <<>>
  /\ fnCount' = [n \in 0..(Len(steps) - 1) |-> 0]
  /\ calls' = <<>>
  /\ recordedBy' = [n \in 0..(Len(steps) - 1) |-> None]
  /\ evals' = <<>>
  /\ failedStep' = None
  /\ failedHooks' = {}
  /\ ifResult' = "none"
  /\ skippedSteps' = {}
  /\ untilTrue' = None
  /\ UNCHANGED <<config, store, skipped, grpc, bk, ops, opsResult, selection, shards,
                 selected, rpc, next, sem, ctx, egErr, status, goErr, ret, closedWith,
                 failedFF, outcome>>

InitAgain == Init /\ ~useMap

NextAgain == Next \/ RunNAgain

SpecAgain == InitAgain /\ [][NextAgain]_vars

(***************************************************************************)
(* AppendStep on a step mapping: the sections are taken out of the mapping *)
(* in order, then one of the keys that remain is popped as the runner key. *)
(* A value of the mapping is modelled by its kind.                         *)
(***************************************************************************)
\* the value of `if` and of `desc`: absent, a string, or of another type
SectionValues == {"absent", "string", "other"}

\* the value of `loop` and of `retry`: absent, one newLoop accepts, one it rejects
LoopValues == {"absent", "count", "until", "invalid"}

\* the value of `test`
TestValues == {"absent", "bool", "string", "other"}

\* the value of `dump`: absent, a string, a mapping with or without `expr`
\* and `out`, or of another type
DumpValues ==
  { v \in [kind : {"absent", "string", "map", "other"}, expr : SectionValues,
           out : SectionValues] :
      v.kind # "map" => v.expr = "absent" /\ v.out = "absent" }

\* the value of `bind`: absent, a mapping of strings, a mapping with a value
\* that is not a string, or not a mapping
BindValues == {"absent", "strings", "mixed", "other"}

\* the keys that are not section keys: include, exec, a key of a declared
\* runner (o.httpRunners here), a key of no runner
RunnerKeys == {"include", "exec", "req", "nokey"}
Declared == {"req"}

\* the value under a runner key: a mapping (for include: a config that
\* parseIncludeConfig accepts) or a value of another type (one it rejects)
RunnerValues == {"map", "other"}

Rests == UNION { [ks -> RunnerValues] : ks \in {x \in SUBSET RunnerKeys : Cardinality(x) <= MaxRest} }

\* the section keys that mapping s has
Sections(s) ==
  {x \in {"if", "desc", "loop", "retry", "test", "bind"} : s[x] # "absent"}
    \cup (IF s.dump.kind # "absent" THEN {"dump"} ELSE {})

StepMappings ==
  { s \in [if : SectionValues, desc : SectionValues, loop : LoopValues, retry : LoopValues,
           test : TestValues, dump : DumpValues, bind : BindValues, rest : Rests] :
      Cardinality(Sections(s)) <= MaxSections }

\* newLoop(v)
newLoop(v) == IF v = "invalid" THEN [loop |-> "none", err |-> Err("invalid loop", 0)]
              ELSE [loop |-> v, err |-> NoErr]

\* parseIncludeConfig(v)
parseIncludeConfig(v) == IF v = "map" THEN NoErr ELSE Err("invalid include config", 0)

\* pop(s): any one of the keys that remain (the order of a map range is not
\* defined), none when the mapping is empty
pop(s) == IF DOMAIN s.rest = {} THEN {None} ELSE {Some(x) : x \in DOMAIN s.rest}

\* the dump section of AppendStep: the error it returns, whether it panics
\* (a type assertion to string on a value that is nil or not a string)
appendDump(v) ==
  IF v.kind \in {"absent", "string"} THEN [err |-> NoErr, panic |-> FALSE]
  ELSE IF v.kind = "other" THEN [err |-> Err("invalid dump request", 0), panic |-> FALSE]
  ELSE IF v.expr = "absent" THEN [err |-> Err("invalid dump request", 0), panic |-> FALSE]
  ELSE [err |-> NoErr, panic |-> v.expr # "string" \/ v.out # "string"]

\* the runner section of AppendStep, for the popped key
appendRunner(s, kv) ==
  IF kv = None THEN NoErr
  ELSE LET x == kv[1]
           v == s.rest[x]
       IN IF x = "include" THEN parseIncludeConfig(v)
          ELSE IF x = "exec"
               THEN (IF v = "map" THEN NoErr ELSE Err("invalid exec command", 0))
               ELSE IF x \in Declared
                    THEN (IF v = "map" THEN NoErr ELSE Err("invalid http request", 0))
                    ELSE Err("cannot find client", 0)

\* the shape of the step AppendStep builds from mapping s
shapeOf(s, kv) ==
  [cond |-> IF s.if = "string" THEN "c" ELSE "",
   loop |-> IF s.retry # "absent" THEN newLoop(s.retry).loop
            ELSE IF s.loop # "absent" THEN newLoop(s.loop).loop ELSE "none",
   runner |-> kv # None, test |-> s.test # "absent", dump |-> s.dump.kind # "absent",
   bind |-> s.bind # "absent"]

\* AppendStep(key, s) on the steps ss, where pop gives kv: the steps after
\* it, the error returned, whether the call panicked
AppendStepMap(ss, key, s, kv) ==
  LET d == appendDump(s.dump)
      r == appendRunner(s, kv)
      fail(e) == [steps |-> ss, err |-> e, panic |-> FALSE]
  IN IF s.if = "other" THEN fail(Err("invalid if condition", 0))
     ELSE IF s.desc = "other" THEN fail(Err("invalid desc", 0))
     ELSE IF s.loop # "absent" /\ newLoop(s.loop).err # NoErr THEN fail(newLoop(s.loop).err)
     ELSE IF s.retry # "absent" /\ newLoop(s.retry).err # NoErr THEN fail(newLoop(s.retry).err)
     ELSE IF s.test = "other" THEN fail(Err("invalid test condition", 0))
     ELSE IF d.panic THEN [steps |-> ss, err |-> NoErr, panic |-> TRUE]
     ELSE IF d.err # NoErr THEN fail(d.err)
     ELSE IF s.bind \in {"mixed", "other"} THEN fail(Err("invalid bind condition", 0))
     ELSE IF r # NoErr THEN fail(r)
     ELSE [steps |-> AppendStep(ss, key, shapeOf(s, kv)), err |-> NoErr, panic |-> FALSE]

\* one call of AppendStep on the operator, with the key New gives in list mode
AppendStepCall ==
  /\ appendRet = None
  /\ \E s \in StepMappings : \E kv \in pop(s) :
       LET key == stepKey(useMap, Len(steps))
           r == AppendStepMap(steps, key, s, kv)
       IN /\ steps' = r.steps
          /\ appendRet' = Some([s |-> s, key |-> key, kv |-> kv, before |-> steps,
                                err |-> r.err, panic |-> r.panic])
  /\ UNCHANGED <<useMap, skipTest, cond, store, skipped, runResult, pc, i, j, c, k,
                 rerr, registered, result, captured, beforeCalls, afterCalls, begun,
                 fnCount, calls, recordedBy, evals, failedStep, failedHooks, ifResult,
                 skippedSteps, untilTrue, multi, grpc>>

\* an operator in list mode while New appends the steps of its book
InitAppend ==
  /\ Init
  /\ ~useMap /\ ~skipTest /\ cond = ""
  /\ Len(steps) < MaxSteps

NextAppend == AppendStepCall

SpecAppend == InitAppend /\ [][NextAppend]_vars

(***************************************************************************)
(* The operators of a run.  The run of each operator is taken as a whole:  *)
(* it ends as a success, as skipped or as a failure.                       *)
(***************************************************************************)
\* the state of one operator's run is left out: an operator without steps
\* that has not run
NoOperator ==
  /\ useMap = FALSE
  /\ skipTest = FALSE
  /\ cond = ""
  /\ steps = <<>>
  /\ appendRet = None
  /\ store = [steps |-> <<>>, stepMap |-> <<>>, loopIndex |-> None]
  /\ skipped = FALSE
  /\ runResult = [Err |-> NoErr, Skipped |-> FALSE]
  /\ pc = "idle"
  /\ i = 0
  /\ j = 0
  /\ c = 0
  /\ k = 0
  /\ rerr = NoErr
  /\ registered = FALSE
  /\ result = [Total |-> 0, Success |-> 0, Failure |-> 0, Skipped |-> 0]
  /\ captured = <<>>
  /\ beforeCalls = <<>>
  /\ afterCalls = <<>>
  /\ begun = <<>>
  /\ fnCount = <<>>
  /\ calls = <<>>
  /\ recordedBy = <<>>
  /\ evals = <<>>
  /\ failedStep = None
  /\ failedHooks = {}
  /\ ifResult = "none"
  /\ skippedSteps = {}
  /\ untilTrue = None

\* the options Load is called with: shard indexes are below the number of
\* shards, the shuffle seed matters only with shuffle
BookOptions ==
  { b \in [runParallel : BOOLEAN, runParallelMax : 1..MaxPmax, runShuffle : BOOLEAN,
           runShuffleSeed : 0..MaxSeed, runShardN : 0..MaxShardN,
           runShardIndex : 0..MaxShardN, runSample : 0..MaxSample,
           runRandom : 0..MaxRandom] :
      /\ b.runParallel \/ b.runParallelMax = 1
      /\ b.runShuffle \/ b.runShuffleSeed = 0
      /\ b.runShardIndex < b.runShardN \/ b.runShardIndex = 0 }

\* the operators Load builds: one per runbook found (the first m paths), each
\* fail-fast or not
Loaded ==
  UNION { { {New(Paths[n], n, ff[n]) : n \in 1..m} : ff \in [1..m -> BOOLEAN] } :
          m \in 0..MaxOps }

\* &runNResult{}
emptyResult ==
  [Total |-> 0, Success |-> 0, Failure |-> 0, Skipped |-> 0, RunResults |-> <<>>]

\* RunResults.Store(key, v)
Store(m, key, v) == [x \in (DOMAIN m) \cup {key} |-> IF x = key THEN v ELSE m[x]]

\* the counting of an operator's outcome with Success counted after a
\* failure too
CountFallsThrough(res, out) ==
  LET r1 == IF out = "failure" THEN [res EXCEPT !.Failure = @ + 1] ELSE res
  IN IF out = "skipped" THEN [r1 EXCEPT !.Skipped = @ + 1]
     ELSE [r1 EXCEPT !.Success = @ + 1]

\* the goroutine of an operator counts the outcome of o.run
Count(res, out) ==
  IF out = "failure" THEN [res EXCEPT !.Failure = @ + 1]
  ELSE IF out = "skipped" THEN [res EXCEPT !.Skipped = @ + 1]
  ELSE [res EXCEPT !.Success = @ + 1]

\* the error o.run returns for selected[n]
RunErr(n) == Wrap("failed to run", Err("run", n))

\* ctx.Err() of a canceled context
Canceled == Err("context canceled", 0)

\* the operators whose run has started and not finished
Running == {n \in 1..Len(status) : status[n] = "running"}

\* operators.Close, deferred by RunN
Close == closedWith' = Some(Running)

\* RunN up to the range loop: clearResult, SelectedOperators, Total
RunNStart ==
  /\ rpc = "idle"
  /\ \E seedS, seedR \in 0..MaxSeed, failAt \in 0..1 :
       LET r == SelectedOperators(ops, seedS, seedR, failAt) IN
       /\ selection' = Some(r)
       /\ IF r.panic
          THEN /\ opsResult' = emptyResult
               /\ Close
               /\ rpc' = "panicked"
               /\ UNCHANGED <<selected, status, goErr, outcome, ret>>
          ELSE IF r.err # NoErr
          THEN /\ opsResult' = emptyResult
               /\ ret' = Some(r.err)
               /\ Close
               /\ rpc' = "returned"
               /\ UNCHANGED <<selected, status, goErr, outcome>>
          ELSE /\ opsResult' = [emptyResult EXCEPT !.Total = Len(r.ops)]
               /\ selected' = r.ops
               /\ status' = [n \in 1..Len(r.ops) |-> "selected"]
               /\ goErr' = [n \in 1..Len(r.ops) |-> NoErr]
               /\ outcome' = [n \in 1..Len(r.ops) |-> "none"]
               /\ rpc' = "range"
               /\ UNCHANGED <<ret, closedWith>>
  /\ UNCHANGED <<single, grpc, runs, bk, ops, shards, next, sem, ctx, egErr, failedFF>>

\* sem.Acquire without the limit of the semaphore
AcquireUnlimited ==
  /\ rpc = "range"
  /\ next < Len(selected)
  /\ sem' = sem + 1
  /\ status' = [status EXCEPT ![next + 1] = "running"]
  /\ next' = next + 1
  /\ UNCHANGED <<single, grpc, runs, bk, ops, opsResult, selection, shards, selected, rpc, ctx,
                 egErr, goErr, ret, closedWith, failedFF, outcome>>

\* sem.Acquire(ctx, 1) returns nil and eg.Go starts the goroutine of the next
\* operator: there is room in the semaphore (Acquire may return nil although
\* ctx is done)
Acquire ==
  /\ rpc = "range"
  /\ next < Len(selected)
  /\ sem < ops.pmax
  /\ sem' = sem + 1
  /\ status' = [status EXCEPT ![next + 1] = "running"]
  /\ next' = next + 1
  /\ UNCHANGED <<single, grpc, runs, bk, ops, opsResult, selection, shards, selected, rpc, ctx,
                 egErr, goErr, ret, closedWith, failedFF, outcome>>

\* sem.Acquire(ctx, 1) returns ctx.Err() because ctx is done: RunN returns it
\* at once and the deferred Close executes
AcquireCanceled ==
  /\ rpc = "range"
  /\ next < Len(selected)
  /\ ctx # "live"
  /\ ret' = Some(Canceled)
  /\ Close
  /\ rpc' = "returned"
  /\ UNCHANGED <<single, grpc, runs, bk, ops, opsResult, selection, shards, selected, next, sem,
                 ctx, egErr, status, goErr, failedFF, outcome>>

\* o.run of selected[n] returns: the goroutine counts the outcome, decides
\* what it returns and its deferred function stores the result and releases
\* the semaphore; a goroutine that returns nil has returned then, one that
\* returns an error has yet to hand it to the errgroup
OperatorRan(n) ==
  /\ status[n] = "running"
  /\ \E out \in {"success", "skipped", "failure"} :
       LET o == selected[n]
           err == IF out = "failure" THEN RunErr(n) ELSE NoErr
       IN /\ opsResult' = [Count(opsResult, out) EXCEPT
                             !.RunResults = Store(@, bookPathOrID(o),
                                                  [id |-> o.id, Err |-> err,
                                                   Skipped |-> out = "skipped"])]
          /\ outcome' = [outcome EXCEPT ![n] = out]
          /\ goErr' = [goErr EXCEPT ![n] = IF o.failFast THEN err ELSE NoErr]
          /\ failedFF' = IF o.failFast /\ out = "failure"
                         THEN Append(failedFF, n) ELSE failedFF
          /\ status' = [status EXCEPT ![n] = IF o.failFast /\ out = "failure"
                                               THEN "returning" ELSE "returned"]
  /\ sem' = sem - 1
  /\ UNCHANGED <<single, grpc, runs, bk, ops, selection, shards, selected, rpc, next, ctx, egErr,
                 ret, closedWith>>

\* the goroutine of selected[n] returns its error to the errgroup: the first
\* error returned is kept and cancels the context
GoReturns(n) ==
  /\ status[n] = "returning"
  /\ status' = [status EXCEPT ![n] = "returned"]
  /\ IF goErr[n] # NoErr /\ egErr = NoErr
     THEN /\ egErr' = goErr[n]
          /\ ctx' = IF ctx = "live" THEN "canceled by the group" ELSE ctx
     ELSE UNCHANGED <<egErr, ctx>>
  /\ UNCHANGED <<single, grpc, runs, bk, ops, opsResult, selection, shards, selected, rpc, next,
                 sem, goErr, ret, closedWith, failedFF, outcome>>

\* the caller cancels the context RunN was given
Cancel ==
  /\ rpc = "range"
  /\ ctx = "live"
  /\ ctx' = "canceled by the caller"
  /\ UNCHANGED <<single, grpc, runs, bk, ops, opsResult, selection, shards, selected, rpc, next,
                 sem, egErr, status, goErr, ret, closedWith, failedFF, outcome>>

\* the range loop is over: eg.Wait returns when every goroutine has returned,
\* RunN returns its error and the deferred Close executes
Wait ==
  /\ rpc = "range"
  /\ next = Len(selected)
  /\ \A n \in 1..Len(status) : status[n] = "returned"
  /\ ret' = Some(egErr)
  /\ ctx' = IF ctx = "live" THEN "canceled by the group" ELSE ctx
  /\ Close
  /\ rpc' = "returned"
  /\ UNCHANGED <<single, grpc, runs, bk, ops, opsResult, selection, shards, selected, next, sem,
                 egErr, status, goErr, failedFF, outcome>>

\* Load, for a RunN: the selection stages shuffle, shard and sample are off
InitRunN ==
  /\ NoOperator
  /\ bk \in {b \in BookOptions : ~b.runShuffle /\ b.runShardN = 0 /\ b.runSample = 0}
  /\ \E om \in Loaded : ops = Load(bk, om)
  /\ NoRunN
  /\ NoGrpc
  /\ NoProtos

NextRunN ==
  \/ RunNStart
  \/ Acquire
  \/ AcquireCanceled
  \/ \E n \in 1..Len(status) : OperatorRan(n)
  \/ \E n \in 1..Len(status) : GoReturns(n)
  \/ Cancel
  \/ Wait

SpecRunN == InitRunN /\ [][NextRunN]_vars

(***************************************************************************)
(* SelectedOperators, for every configuration of the stages.               *)
(***************************************************************************)
\* one call of SelectedOperators
Select ==
  /\ selection = None
  /\ \E seedS, seedR \in 0..MaxSeed, failAt \in 0..1 :
       selection' = Some(SelectedOperators(ops, seedS, seedR, failAt))
  /\ UNCHANGED <<single, grpc, runs, bk, ops, opsResult, shards, selected, rpc, next, sem, ctx,
                 egErr, status, goErr, ret, closedWith, failedFF, outcome>>

\* the same list loaded with the same options but shard index x: what
\* SelectedOperators returns there, where no later stage thins the shards
SelectShard ==
  /\ ops.shardN > 0
  /\ ops.sample = 0
  /\ ops.random = 0
  /\ Len(shards) < ops.shardN
  /\ LET x == Len(shards) IN
     shards' = Append(shards, SelectedOperators([ops EXCEPT !.shardIndex = x], 0, 0, 0).ops)
  /\ UNCHANGED <<single, grpc, runs, bk, ops, opsResult, selection, selected, rpc, next, sem, ctx,
                 egErr, status, goErr, ret, closedWith, failedFF, outcome>>

InitSelect ==
  /\ NoOperator
  /\ bk \in {b \in BookOptions : ~b.runParallel}
  /\ \E m \in 0..MaxOps : ops = Load(bk, {New(Paths[n], n, FALSE) : n \in 1..m})
  /\ NoRunN
  /\ NoGrpc
  /\ NoProtos

NextSelect ==
  \/ Select
  \/ SelectShard

SpecSelect == InitSelect /\ [][NextSelect]_vars

(***************************************************************************)
(* The gRPC runner: Run in its four modes, and Close.  The connection and  *)
(* the server are the environment: each call on the connection or on the   *)
(* stream returns one of the results the library can return there.         *)
(***************************************************************************)
\* GRPCType: the kind of the method descriptor a request resolves to
GRPCTypes == {"unary", "server", "client", "bidi"}

\* GRPCOp
GRPCOps == {"message", "receive", "close"}

\* r.messages: up to MaxMsgs ops
Messages == UNION { [1..n -> GRPCOps] : n \in 0..MaxMsgs }

\* the requests: service/method resolve to a descriptor of one of the four
\* kinds or to none; only the bidi mode looks at a timeout, only the client
\* and bidi modes at the ops of the messages
Requests ==
  { r \in [method : GRPCTypes \cup {"missing"}, messages : Messages, timeout : BOOLEAN] :
      /\ r.timeout => r.method = "bidi" /\ r.messages = <<>>
      /\ r.method \in {"unary", "server"} => \A x \in 1..Len(r.messages) : r.messages[x] = "message"
      /\ r.method = "missing" => r.messages = <<>> }

\* the result of a call on the connection or the stream: nil ("ok"), io.EOF,
\* context.Canceled, a status error with a code other than OK, another error
errOf(o) ==
  CASE o = "ok" -> NoErr
    [] o = "status" -> Err("NotFound", 0)
    [] OTHER -> Err(o, 0)

\* status.FromError: ok for nil and for status errors
FromError(e) ==
  [ok |-> e.kind \in {"nil", "NotFound"},
   code |-> IF e.kind = "nil" THEN "OK" ELSE IF e.kind = "NotFound" THEN "NotFound" ELSE "Unknown",
   message |-> IF e.kind = "NotFound" THEN "not found" ELSE ""]

\* the values of d["message"]: nil, a received message, the status text
Nil == [kind |-> "nil"]
Msg(n) == [kind |-> "msg", n |-> n]
Text(t) == [kind |-> "text", text |-> t]

\* d[key] = v
Put(dd, key, v) == [x \in (DOMAIN dd) \cup {key} |-> IF x = key THEN v ELSE dd[x]]

\* d := map[string]any{headers: metadata.MD{}, trailers: metadata.MD{}, message: nil}
newD == [x \in {"headers", "trailers", "message"} |-> IF x = "message" THEN Nil ELSE "MD"]

\* return e
Return(cl, e) == [cl EXCEPT !.pc = "idle", !.ret = Some(e)]

\* history: the call `what` made for op x returned o
Ev(cl, what, x, o) == [cl EXCEPT !.events = Append(@, [call |-> what, op |-> x, out |-> o])]

\* what stream.RecvMsg can return: a stream that has ended keeps returning
\* what it ended with, and the server sends at most MaxRecv messages
RecvResults(cl) ==
  IF cl.ended # None THEN {cl.ended[1]}
  ELSE (IF cl.recvd < MaxRecv THEN {"ok"} ELSE {}) \cup {"eof", "canceled", "status", "error"}

\* stream.RecvMsg for op x (0 after the op loop) returning o
RecvMsg(cl, x, o) ==
  IF cl.ended # None
  THEN [(IF x > 0 THEN Ev(cl, "recv", x, o) ELSE cl) EXCEPT !.afterEnd = TRUE]
  ELSE [Ev(cl, "recv", x, o) EXCEPT
          !.recvd = IF o = "ok" THEN @ + 1 ELSE @,
          !.ended = IF o = "ok" THEN None ELSE Some(o),
          !.answered = IF o = "status" THEN Some(FromError(errOf(o)).code) ELSE @]

\* what stream.SendMsg and stream.CloseSend can return
SendResults == {"ok", "eof", "canceled", "status", "error"}
CloseSendResults == {"ok", "error"}

\* rnr.setMessage for op x: expanding or marshalling the message can fail
setMessage(cl, x, sm) == Ev(cl, "setMessage", x, sm)

\* rnr.operator.record(map[string]any{"res": d})
recordRes(cl) == [cl EXCEPT !.recorded = Append(@, [res |-> cl.d])]

\* the connection the runner holds is one that has been closed
ccClosed == rnr.cc # None /\ conns[rnr.cc[1]] > 0

\* the first part of Run: dial when there is no connection, make the
\* reflection client when there is none, resolve the methods, look the
\* method up.  od, op, orf are the results of the dial, of
\* resolveAllMethodsUsingProtos and of resolveAllMethodsUsingReflection
Run(rn, cs, r, od, op, orf) ==
  LET dial == rn.cc = None
      r1 == IF dial /\ od = "ok" THEN [rn EXCEPT !.cc = Some(Len(cs) + 1)] ELSE rn
      cs1 == IF dial /\ od = "ok" THEN Append(cs, 0) ELSE cs
      e1 == dial /\ od = "err"
      client == ~e1 /\ r1.refc = None
      r2 == IF client THEN [r1 EXCEPT !.refc = r1.cc] ELSE r1
      protos == ~e1 /\ rn.protos
      e2 == protos /\ op = "err"
      r3 == IF protos /\ op = "ok" THEN [r2 EXCEPT !.mds = @ \cup GRPCTypes] ELSE r2
      reflect == ~e1 /\ ~e2 /\ r3.mds = {}
      e3 == reflect /\ orf = "err"
      r4 == IF reflect /\ orf = "ok" THEN [r3 EXCEPT !.mds = GRPCTypes] ELSE r3
      e4 == ~e1 /\ ~e2 /\ ~e3 /\ r.method \notin r4.mds
      lg == (IF dial THEN <<"dial">> ELSE <<>>)
            \o (IF client THEN <<"reflection client">> ELSE <<>>)
            \o (IF protos THEN <<"protos">> ELSE <<>>)
            \o (IF reflect THEN <<"reflection">> ELSE <<>>)
            \o (IF ~e1 /\ ~e2 /\ ~e3 THEN <<"lookup">> ELSE <<>>)
      e == IF e1 THEN Err("dial", 0)
           ELSE IF e2 THEN Err("protos", 0)
           ELSE IF e3 THEN Err("reflection", 0)
           ELSE IF e4 THEN Err("cannot find method", 0)
           ELSE NoErr
      cl == [noCall EXCEPT !.log = lg]
  IN [rnr |-> r4, conns |-> cs1,
      call |-> IF e # NoErr THEN Return(cl, e) ELSE [cl EXCEPT !.pc = r.method]]

\* history: a call on the connection, marked when the connection is closed
onConn(cl, what, closed) ==
  [cl EXCEPT !.log = Append(@, IF closed THEN what \o " on a closed connection" ELSE what)]

\* what rnr.cc.Invoke can return
InvokeResults(closed) ==
  IF closed THEN {"status", "error"} ELSE {"ok", "status", "canceled", "error"}

\* what rnr.cc.NewStream can return
NewStreamResults(closed) == IF closed THEN {"err"} ELSE Outcomes

\* invokeUnary: sm is the result of setMessage, io of Invoke
invokeUnary(cl, r, closed, sm, io) ==
  IF Len(r.messages) # 1 THEN Return(cl, Err("unary RPC message should be 1", 0))
  ELSE LET c1 == setMessage(cl, 1, sm)
           c2 == onConn(c1, "Invoke", closed)
           e == errOf(io)
           stat == FromError(e)
           d1 == Put(Put(newD, "status", stat.code), "message", Nil)
           d2 == IF stat.code = "OK"
                 THEN Put(Put(d1, "message", Msg(1)), "messages", <<Msg(1)>>)
                 ELSE Put(d1, "message", Text(stat.message))
       IN IF sm = "err" THEN Return(c1, Err("setMessage", 0))
          ELSE IF ~stat.ok THEN Return(c2, e)
          ELSE Return(recordRes([c2 EXCEPT
                 !.d = d2,
                 !.messages = IF stat.code = "OK" THEN <<Msg(1)>> ELSE <<>>,
                 !.answered = IF stat.code = "OK" THEN None ELSE Some(stat.code)]), NoErr)

\* the end of the streaming modes other than bidi: messages, headers and
\* trailers are stored, the result is recorded, nil is returned
finishStream(cl) ==
  LET d1 == Put(Put(Put(cl.d, "messages", cl.messages), "headers", "MD"), "trailers", "MD")
  IN Return(recordRes([cl EXCEPT !.d = d1]), NoErr)

\* a received answer with status stat is stored in d: an OK message is
\* appended to messages and becomes message, a status other than OK leaves
\* its text as message
storeAnswer(cl, stat) ==
  LET d1 == Put(cl.d, "status", stat.code)
  IN IF stat.code = "OK"
     THEN [cl EXCEPT !.d = Put(d1, "message", Msg(cl.recvd)),
                     !.messages = Append(@, Msg(cl.recvd))]
     ELSE [cl EXCEPT !.d = Put(d1, "message", Text(stat.message))]

\* invokeServerStreaming up to the receive loop: ns is the result of
\* NewStream, so of SendMsg
serverStreamingSend(cl, r, closed, sm, ns, so) ==
  IF Len(r.messages) # 1 THEN Return(cl, Err("server streaming RPC message should be 1", 0))
  ELSE LET c1 == setMessage(cl, 1, sm)
           c2 == onConn(c1, "NewStream", closed)
           c3 == Ev(c2, "send", 1, so)
       IN IF sm = "err" THEN Return(c1, Err("setMessage", 0))
          ELSE IF ns = "err" THEN Return(c2, Err("NewStream", 0))
          ELSE IF so # "ok" THEN Return(c3, errOf(so))
          ELSE [c3 EXCEPT !.pc = "server receive", !.d = newD]

\* the receive loop going on after a status other than OK
serverStreamingRecvGoesOn(cl, o) ==
  LET c1 == RecvMsg(cl, 0, o)
      e == errOf(o)
      stat == FromError(e)
  IN IF o \in {"canceled", "eof"} THEN finishStream(c1)
     ELSE IF ~stat.ok THEN Return(c1, e)
     ELSE storeAnswer(c1, stat)

\* one iteration of the receive loop of invokeServerStreaming, and the rest
\* of the function when the loop ends
serverStreamingRecv(cl, o) ==
  LET c1 == RecvMsg(cl, 0, o)
      e == errOf(o)
      stat == FromError(e)
  IN IF o \in {"canceled", "eof"} THEN finishStream(c1)
     ELSE IF ~stat.ok THEN Return(c1, e)
     ELSE IF e = NoErr THEN storeAnswer(c1, stat)
     ELSE finishStream(storeAnswer(c1, stat))

\* invokeClientStreaming up to the op loop
clientStreamingNewStream(cl, closed, ns) ==
  LET c1 == onConn(cl, "NewStream", closed)
  IN IF ns = "err" THEN Return(c1, Err("NewStream", 0))
     ELSE [c1 EXCEPT !.pc = "client ops", !.d = newD, !.opIdx = 1]

\* one iteration of the op loop of invokeClientStreaming: the `break` after
\* a cancelled or ended send leaves the switch, not the loop
clientStreamingOp(cl, r, sm, so) ==
  LET x == cl.opIdx
      c1 == setMessage(cl, x, sm)
      c2 == Ev(c1, "send", x, so)
  IN IF r.messages[x] = "message"
     THEN IF sm = "err" THEN Return(c1, Err("setMessage", 0))
          ELSE [c2 EXCEPT !.opIdx = x + 1]
     ELSE Return(cl, Err("invalid op", x))

\* invokeClientStreaming after the op loop: co is the result of CloseSend, o
\* of the single RecvMsg
clientStreamingClose(cl, co, o) ==
  LET c1 == Ev(cl, "closeSend", 0, co)
      c2 == RecvMsg(c1, 0, o)
      e == errOf(o)
      stat == FromError(e)
  IN IF co # "ok" THEN Return(c1, errOf(co))
     ELSE IF ~stat.ok THEN Return(c2, e)
     ELSE finishStream(storeAnswer(c2, stat))

\* invokeBidiStreaming up to the op loop
bidiStreamingNewStream(cl, r, closed, ns) ==
  LET c1 == onConn(cl, "NewStream", closed)
  IN IF r.timeout THEN Return(cl, Err("unsupported timeout", 0))
     ELSE IF ns = "err" THEN Return(c1, Err("NewStream", 0))
     ELSE [c1 EXCEPT !.pc = IF Len(r.messages) = 0 THEN "bidi after ops" ELSE "bidi ops",
                     !.d = newD, !.opIdx = 1]

\* the op loop goes on with the next op, or is over
nextOp(cl, r) ==
  IF cl.opIdx = Len(r.messages) THEN [cl EXCEPT !.pc = "bidi after ops", !.opIdx = @ + 1]
  ELSE [cl EXCEPT !.opIdx = @ + 1]

\* break L
breakL(cl) == [cl EXCEPT !.pc = "bidi after ops"]

\* what the call of an op can return
OpResults(cl, op) ==
  CASE op = "message" -> SendResults
    [] op = "receive" -> RecvResults(cl)
    [] OTHER -> CloseSendResults

\* the op loop with `break` leaving the switch only
bidiStreamingOpBreaksSwitch(cl, r, sm, o) ==
  LET x == cl.opIdx
      op == r.messages[x]
      e == errOf(o)
      stat == FromError(e)
      c1 == setMessage(cl, x, sm)
      c2 == [Ev(c1, "send", x, o) EXCEPT !.err = e]
      c3 == RecvMsg(cl, x, o)
      c4 == [Ev(cl, "closeSend", x, o) EXCEPT !.clientClose = TRUE, !.err = e]
  IN CASE op = "message" ->
            IF sm = "err" THEN Return(c1, Err("setMessage", 0))
            ELSE nextOp(c2, r)
       [] op = "receive" ->
            IF o \in {"canceled", "eof"} THEN nextOp(c3, r)
            ELSE IF ~stat.ok THEN Return(c3, e)
            ELSE nextOp(storeAnswer([c3 EXCEPT !.d = Put(@, "headers", "MD")], stat), r)
       [] OTHER -> nextOp(c4, r)

\* one iteration of the op loop of invokeBidiStreaming: sm is the result of
\* setMessage, o of SendMsg, RecvMsg or CloseSend
bidiStreamingOp(cl, r, sm, o) ==
  LET x == cl.opIdx
      op == r.messages[x]
      e == errOf(o)
      stat == FromError(e)
      c1 == setMessage(cl, x, sm)
      c2 == [Ev(c1, "send", x, o) EXCEPT !.err = e]
      c3 == RecvMsg(cl, x, o)
      c4 == [Ev(cl, "closeSend", x, o) EXCEPT !.clientClose = TRUE, !.err = e]
  IN CASE op = "message" ->
            IF sm = "err" THEN Return(c1, Err("setMessage", 0))
            ELSE IF o \in {"canceled", "eof"} THEN breakL(c2)
            ELSE nextOp(c2, r)
       [] op = "receive" ->
            IF o \in {"canceled", "eof"} THEN breakL(c3)
            ELSE IF ~stat.ok THEN Return(c3, e)
            ELSE nextOp(storeAnswer([c3 EXCEPT !.d = Put(@, "headers", "MD")], stat), r)
       [] OTHER -> breakL(c4)

\* invokeBidiStreaming after the op loop: the status of the last send or
\* CloseSend
bidiStreamingAfterOps(cl) ==
  LET stat == FromError(cl.err)
      c1 == IF stat.code # "OK"
            THEN [cl EXCEPT !.d = Put(Put(@, "status", stat.code), "message", Text(stat.message))]
            ELSE cl
  IN IF ~stat.ok THEN Return(cl, cl.err)
     ELSE [c1 EXCEPT !.pc = IF cl.clientClose THEN "bidi drain closed"
                            ELSE IF cl.err = NoErr THEN "bidi drain"
                            ELSE "bidi close"]

\* one iteration of the receive loop after the client closed: o is the
\* result of RecvMsg, co of the CloseSend that follows a received message
bidiStreamingDrainClosed(cl, o, co) ==
  LET c1 == RecvMsg(cl, 0, o)
      c2 == Ev(c1, "closeSend", 0, co)
  IN IF o \in {"canceled", "eof"} THEN [c1 EXCEPT !.pc = "bidi close"]
     ELSE IF o # "ok" THEN Return(c1, errOf(o))
     ELSE IF co # "ok" THEN Return(c2, errOf(co))
     ELSE c2

\* one iteration of the receive loop when the client has not closed
bidiStreamingDrain(cl, o) ==
  LET c1 == RecvMsg(cl, 0, o)
      e == errOf(o)
      stat == FromError(e)
  IN IF o \in {"canceled", "eof"} THEN [c1 EXCEPT !.pc = "bidi close"]
     ELSE IF ~stat.ok THEN Return(c1, e)
     ELSE storeAnswer(c1, stat)

\* rnr.cc.Close() on connection n: an error when it is closed already
ccClose(cs, n) == [conns |-> [cs EXCEPT ![n] = @ + 1],
                   err |-> IF cs[n] = 0 THEN NoErr ELSE Err("connection closing", 0)]

\* the end of invokeBidiStreaming keeping the connection
bidiStreamingCloseKeepsConn(rn, cs, cl) ==
  LET d1 == Put(Put(Put(cl.d, "messages", cl.messages), "headers", "MD"), "trailers", "MD")
      c2 == [cl EXCEPT !.log = @ \o <<"trailers">>, !.d = d1]
  IN [rnr |-> rn, conns |-> cs, call |-> Return(recordRes(c2), NoErr)]

\* the end of invokeBidiStreaming: the connection is closed and forgotten,
\* then headers and trailers are read and the result is recorded
bidiStreamingClose(rn, cs, cl) ==
  LET cc == ccClose(cs, rn.cc[1])
      c1 == [cl EXCEPT !.log = Append(@, "connection closed")]
      d1 == Put(Put(Put(cl.d, "messages", cl.messages), "headers", "MD"), "trailers", "MD")
      c2 == [c1 EXCEPT !.log = Append(@, "trailers"), !.d = d1]
  IN IF cc.err # NoErr
     THEN [rnr |-> rn, conns |-> cc.conns, call |-> Return(c1, cc.err)]
     ELSE [rnr |-> [rn EXCEPT !.cc = None, !.refc = None], conns |-> cc.conns,
           call |-> Return(recordRes(c2), NoErr)]

\* grpcRunner.Close
grpcRunnerClose(rn, cs) ==
  IF rn.cc = None
  THEN [rnr |-> [rn EXCEPT !.refc = None], conns |-> cs, err |-> NoErr]
  ELSE LET cc == ccClose(cs, rn.cc[1])
       IN [rnr |-> [rn EXCEPT !.refc = None], conns |-> cc.conns, err |-> cc.err]

\* a Run of the runner on the request of its step
GrpcRun ==
  /\ call.pc = "idle"
  /\ nrun < MaxRuns
  /\ nrun' = nrun + 1
  /\ \E od \in (IF rnr.cc = None THEN Outcomes ELSE {"ok"}),
        op \in (IF rnr.protos THEN Outcomes ELSE {"ok"}),
        orf \in (IF ~rnr.protos /\ rnr.mds = {} /\ ~ccClosed THEN Outcomes ELSE {"err"}) :
       LET n == Run(rnr, conns, req, od, op, orf) IN
       /\ rnr' = n.rnr
       /\ conns' = n.conns
       /\ call' = n.call
  /\ UNCHANGED <<single, multi, protoReg, closeRets, req>>

InvokeUnary ==
  /\ call.pc = "unary"
  /\ \E sm \in Outcomes, io \in InvokeResults(ccClosed) :
       call' = invokeUnary(call, req, ccClosed, sm, io)
  /\ UNCHANGED <<single, multi, protoReg, rnr, conns, nrun, closeRets, req>>

ServerStreamingSend ==
  /\ call.pc = "server"
  /\ \E sm \in Outcomes, ns \in NewStreamResults(ccClosed), so \in SendResults :
       call' = serverStreamingSend(call, req, ccClosed, sm, ns, so)
  /\ UNCHANGED <<single, multi, protoReg, rnr, conns, nrun, closeRets, req>>

ServerStreamingRecv ==
  /\ call.pc = "server receive"
  /\ \E o \in RecvResults(call) : call' = serverStreamingRecv(call, o)
  /\ UNCHANGED <<single, multi, protoReg, rnr, conns, nrun, closeRets, req>>

ClientStreamingNewStream ==
  /\ call.pc = "client"
  /\ \E ns \in NewStreamResults(ccClosed) : call' = clientStreamingNewStream(call, ccClosed, ns)
  /\ UNCHANGED <<single, multi, protoReg, rnr, conns, nrun, closeRets, req>>

ClientStreamingOp ==
  /\ call.pc = "client ops"
  /\ call.opIdx <= Len(req.messages)
  /\ \E sm \in Outcomes, so \in SendResults : call' = clientStreamingOp(call, req, sm, so)
  /\ UNCHANGED <<single, multi, protoReg, rnr, conns, nrun, closeRets, req>>

ClientStreamingClose ==
  /\ call.pc = "client ops"
  /\ call.opIdx > Len(req.messages)
  /\ \E co \in CloseSendResults, o \in RecvResults(call) :
       call' = clientStreamingClose(call, co, o)
  /\ UNCHANGED <<single, multi, protoReg, rnr, conns, nrun, closeRets, req>>

BidiStreamingNewStream ==
  /\ call.pc = "bidi"
  /\ \E ns \in NewStreamResults(ccClosed) :
       call' = bidiStreamingNewStream(call, req, ccClosed, ns)
  /\ UNCHANGED <<single, multi, protoReg, rnr, conns, nrun, closeRets, req>>

BidiStreamingOp ==
  /\ call.pc = "bidi ops"
  /\ \E sm \in OutcomesOf(req.messages[call.opIdx] = "message"),
        o \in OpResults(call, req.messages[call.opIdx]) :
       call' = bidiStreamingOp(call, req, sm, o)
  /\ UNCHANGED <<single, multi, protoReg, rnr, conns, nrun, closeRets, req>>

BidiStreamingAfterOps ==
  /\ call.pc = "bidi after ops"
  /\ call' = bidiStreamingAfterOps(call)
  /\ UNCHANGED <<single, multi, protoReg, rnr, conns, nrun, closeRets, req>>

BidiStreamingDrainClosed ==
  /\ call.pc = "bidi drain closed"
  /\ \E o \in RecvResults(call), co \in CloseSendResults :
       call' = bidiStreamingDrainClosed(call, o, co)
  /\ UNCHANGED <<single, multi, protoReg, rnr, conns, nrun, closeRets, req>>

BidiStreamingDrain ==
  /\ call.pc = "bidi drain"
  /\ \E o \in RecvResults(call) : call' = bidiStreamingDrain(call, o)
  /\ UNCHANGED <<single, multi, protoReg, rnr, conns, nrun, closeRets, req>>

BidiStreamingClose ==
  /\ call.pc = "bidi close"
  /\ LET n == bidiStreamingClose(rnr, conns, call) IN
     /\ rnr' = n.rnr
     /\ conns' = n.conns
     /\ call' = n.call
  /\ UNCHANGED <<single, multi, protoReg, nrun, closeRets, req>>

\* rnr.Close(), between two Runs
GrpcRunnerClose ==
  /\ call.pc = "idle"
  /\ Len(closeRets) < MaxCloses
  /\ LET n == grpcRunnerClose(rnr, conns) IN
     /\ rnr' = n.rnr
     /\ conns' = n.conns
     /\ closeRets' = Append(closeRets, n.err)
  /\ UNCHANGED <<single, multi, protoReg, nrun, req, call>>


\* the runner of a step and the request of the step: the step is run up to
\* MaxRuns times (in a loop, or by one RunN after the other)
InitGrpc ==
  /\ NoOperator
  /\ bk = defaultOptions
  /\ ops = Load(bk, {})
  /\ NoRunN
  /\ NoProtos
  /\ \E protos \in BOOLEAN : rnr = newGrpcRunner(protos)
  /\ conns = <<>>
  /\ nrun = 0
  /\ closeRets = <<>>
  /\ req \in Requests
  /\ call = noCall

NextGrpc ==
  \/ GrpcRun
  \/ InvokeUnary
  \/ ServerStreamingSend
  \/ ServerStreamingRecv
  \/ ClientStreamingNewStream
  \/ ClientStreamingOp
  \/ ClientStreamingClose
  \/ BidiStreamingNewStream
  \/ BidiStreamingOp
  \/ BidiStreamingAfterOps
  \/ BidiStreamingDrainClosed
  \/ BidiStreamingDrain
  \/ BidiStreamingClose
  \/ GrpcRunnerClose

SpecGrpc == InitGrpc /\ [][NextGrpc]_vars

\* every call of the bidi mode returns: each step of invokeBidiStreaming that
\* can be taken is taken
BidiFairness ==
  /\ WF_vars(BidiStreamingNewStream)
  /\ WF_vars(BidiStreamingOp)
  /\ WF_vars(BidiStreamingAfterOps)
  /\ WF_vars(BidiStreamingDrainClosed)
  /\ WF_vars(BidiStreamingDrain)
  /\ WF_vars(BidiStreamingClose)

SpecGrpcFair == SpecGrpc /\ BidiFairness

(***************************************************************************)
(* Proto registration: resolveAllMethodsUsingProtos on the process-wide    *)
(* descriptor registry.                                                    *)
(***************************************************************************)
ProtoPaths == {"a.proto", "b.proto"}
Symbols == {"X", "Y"}
Packages == {"p", "X"}

\* the file descriptors a compilation can yield: the path, the top-level
\* symbols (the services, each with one method M) and the package
FileDescriptors == [path : ProtoPaths, syms : (SUBSET Symbols) \ {{}}, pkg : Packages]

\* linker.Files: what comp.Compile returns for the runner's protos
Compiled == UNION { [1..n -> FileDescriptors] : n \in 0..MaxFiles }

\* protoregistry.GlobalFiles.FindFileByPath finds a file
FindFileByPath(reg, path) == \E f \in reg : f.path = path

\* protoregistry.GlobalFiles.FindDescriptorByName finds a descriptor (a
\* package is none)
FindDescriptorByName(reg, name) == \E f \in reg : name \in f.syms

\* protoregistry.GlobalFiles.RegisterFile: a path or a name registered
\* already, also as a package, is an error
RegisterFile(reg, fd) ==
  IF \/ FindFileByPath(reg, fd.path)
     \/ \E f \in reg : fd.pkg \in f.syms \/ fd.syms \cap (f.syms \cup {f.pkg}) # {}
  THEN [reg |-> reg, err |-> Err("RegisterFile", 0)]
  ELSE [reg |-> reg \cup {fd}, err |-> NoErr]

\* registerFiles registering every file, skipping none
RECURSIVE registerFilesSkipsNone(_, _)
registerFilesSkipsNone(reg, fs) ==
  IF fs = <<>> THEN [reg |-> reg, err |-> NoErr]
  ELSE LET r == RegisterFile(reg, Head(fs))
       IN IF r.err # NoErr THEN r ELSE registerFilesSkipsNone(r.reg, Tail(fs))

\* registerFiles: files registered already and files with a conflicting
\* top-level name are skipped
RECURSIVE registerFiles(_, _)
registerFiles(reg, fs) ==
  IF fs = <<>> THEN [reg |-> reg, err |-> NoErr]
  ELSE LET fd == Head(fs)
           r == RegisterFile(reg, fd)
       IN IF FindFileByPath(reg, fd.path) THEN registerFiles(reg, Tail(fs))
          ELSE IF \E name \in fd.syms : FindDescriptorByName(reg, name)
          THEN registerFiles(reg, Tail(fs))
          ELSE IF r.err # NoErr THEN r
          ELSE registerFiles(r.reg, Tail(fs))

\* the keys service/method of the methods of the files
methodKeys(fs) == UNION { {s \o "/M" : s \in fs[n].syms} : n \in 1..Len(fs) }

\* resolveAllMethodsUsingProtos on method table mds and registry reg; fs is
\* what the compilation of the runner's protos yields when it succeeds (ok)
resolveAllMethodsUsingProtos(mds, reg, fs, ok) ==
  LET r == registerFiles(reg, fs)
  IN IF ~ok THEN [mds |-> mds, reg |-> reg, err |-> Err("compile", 0)]
     ELSE IF r.err # NoErr THEN [mds |-> mds, reg |-> r.reg, err |-> r.err]
     ELSE [mds |-> mds \cup methodKeys(fs), reg |-> r.reg, err |-> NoErr]

\* one call of resolveAllMethodsUsingProtos
ResolveProtos ==
  /\ Len(protoHist) < MaxCalls
  /\ LET n == resolveAllMethodsUsingProtos(pmds, GlobalFiles, fds, compiles) IN
     /\ pmds' = n.mds
     /\ GlobalFiles' = n.reg
     /\ protoHist' = Append(protoHist, n)
  /\ UNCHANGED <<single, multi, grpcRun, fds, compiles, par>>


\* the registry holds nothing or one file registered before, by this or
\* another runner
InitProtos ==
  /\ NoOperator
  /\ bk = defaultOptions
  /\ ops = Load(bk, {})
  /\ NoRunN
  /\ NoGrpc
  /\ GlobalFiles \in {{}} \cup {{f} : f \in FileDescriptors}
  /\ fds \in Compiled
  /\ compiles \in BOOLEAN
  /\ pmds = {}
  /\ protoHist = <<>>
  /\ par = <<>>

NextProtos == ResolveProtos

SpecProtos == InitProtos /\ [][NextProtos]_vars

(***************************************************************************)
(* Runners of operators that run in parallel resolve the same proto files. *)
(* A call on protoregistry.GlobalFiles is atomic (the registry locks);     *)
(* the calls of one runner interleave with those of the others.            *)
(***************************************************************************)
\* the runners, one by operator
Runners == {"r1", "r2"}

\* how a runner resolves its methods: by its protos or by reflection
Modes == {"protos", "reflection"}

\* the files of one server: a path and a service are in one file only and
\* no package has the name of a service
WellFormed(fs) ==
  /\ \A n \in 1..Len(fs) : fs[n].pkg \notin Symbols
  /\ \A n, m \in 1..Len(fs) :
       n # m => fs[n].path # fs[m].path /\ fs[n].syms \cap fs[m].syms = {}

\* svcs of ListServices: the services of the files, in order
RECURSIVE ListServices(_)
ListServices(fs) ==
  IF fs = <<>> THEN <<>>
  ELSE (IF "X" \in Head(fs).syms THEN <<"X">> ELSE <<>>)
       \o (IF "Y" \in Head(fs).syms THEN <<"Y">> ELSE <<>>)
       \o ListServices(Tail(fs))

\* rnr.refc.FileContainingSymbol
FileContainingSymbol(fs, svc) == fs[CHOOSE n \in 1..Len(fs) : svc \in fs[n].syms]

\* a runner that starts to resolve
newResolver(mode) ==
  [mode |-> mode, pc |-> IF mode = "protos" THEN "find" ELSE "lookup",
   idx |-> 1, mds |-> {}, err |-> NoErr]

\* the number of iterations of the runner's loop: over the files, or over
\* the services
Rounds(q) == IF q.mode = "protos" THEN Len(fds) ELSE Len(ListServices(fds))

\* `continue`, or the end of the loop: the protos runner then writes the
\* methods of its files into its table
continue(q) ==
  IF q.idx < Rounds(q)
  THEN [q EXCEPT !.idx = @ + 1, !.pc = IF q.mode = "protos" THEN "find" ELSE "lookup"]
  ELSE [q EXCEPT !.idx = @ + 1, !.pc = "done",
                 !.mds = IF q.mode = "protos" THEN methodKeys(fds) ELSE @]

\* registerFiles: FindFileByPath of the current file
ParFind(p) ==
  /\ par[p].pc = "find"
  /\ par' = [par EXCEPT ![p] =
       IF Rounds(@) = 0 THEN [@ EXCEPT !.pc = "done"]
       ELSE IF FindFileByPath(GlobalFiles, fds[@.idx].path) THEN continue(@)
       ELSE [@ EXCEPT !.pc = "conflict"]]
  /\ UNCHANGED <<single, multi, grpcRun, GlobalFiles, fds, compiles, pmds, protoHist>>

\* registerFiles: the search for a registered top-level name of the file
ParConflict(p) ==
  /\ par[p].pc = "conflict"
  /\ par' = [par EXCEPT ![p] =
       IF \E name \in fds[@.idx].syms : FindDescriptorByName(GlobalFiles, name)
       THEN continue(@)
       ELSE [@ EXCEPT !.pc = "register"]]
  /\ UNCHANGED <<single, multi, grpcRun, GlobalFiles, fds, compiles, pmds, protoHist>>

\* findDescripter: FindDescriptorByName of the current service
ParLookup(p) ==
  /\ par[p].pc = "lookup"
  /\ par' = [par EXCEPT ![p] =
       IF Rounds(@) = 0 THEN [@ EXCEPT !.pc = "done"]
       ELSE IF FindDescriptorByName(GlobalFiles, ListServices(fds)[@.idx])
       THEN continue([@ EXCEPT !.mds = @ \cup {ListServices(fds)[par[p].idx] \o "/M"}])
       ELSE [@ EXCEPT !.pc = "register"]]
  /\ UNCHANGED <<single, multi, grpcRun, GlobalFiles, fds, compiles, pmds, protoHist>>

\* RegisterFile of the current file (registerFiles), or of the file the
\* server has for the current service (findDescripter, which then finds the
\* service)
ParRegister(p) ==
  /\ par[p].pc = "register"
  /\ LET q == par[p]
         fd == IF q.mode = "protos" THEN fds[q.idx]
               ELSE FileContainingSymbol(fds, ListServices(fds)[q.idx])
         r == RegisterFile(GlobalFiles, fd)
         q1 == IF q.mode = "protos" THEN q
               ELSE [q EXCEPT !.mds = @ \cup {ListServices(fds)[q.idx] \o "/M"}]
     IN /\ GlobalFiles' = r.reg
        /\ par' = [par EXCEPT ![p] =
             IF r.err # NoErr THEN [q EXCEPT !.pc = "done", !.err = r.err]
             ELSE continue(q1)]
  /\ UNCHANGED <<single, multi, grpcRun, fds, compiles, pmds, protoHist>>

\* the runners of two operators about to resolve the files of one server;
\* the registry is empty
InitPar ==
  /\ NoOperator
  /\ bk = defaultOptions
  /\ ops = Load(bk, {})
  /\ NoRunN
  /\ NoGrpc
  /\ GlobalFiles = {}
  /\ fds \in {fs \in Compiled : WellFormed(fs)}
  /\ compiles = TRUE
  /\ pmds = {}
  /\ protoHist = <<>>
  /\ par \in [Runners -> {newResolver(m) : m \in Modes}]

NextPar ==
  \/ \E p \in Runners : ParFind(p)
  \/ \E p \in Runners : ParConflict(p)
  \/ \E p \in Runners : ParLookup(p)
  \/ \E p \in Runners : ParRegister(p)

SpecPar == InitPar /\ [][NextPar]_vars

(***************************************************************************)
(* The dump runner of src/dump.go.  Its Run takes a flag `first` (the dump *)
(* is the first runner of its step); the call in the step-fn passes no     *)
(* third argument, so both values of the flag are explored.  The books     *)
(* are in list mode and have steps without `if` and without `loop`: each   *)
(* step-fn executes once.                                                  *)
(***************************************************************************)
\* dumpRunner.Run: the snapshot has `previous` and `current`, or with first
\* only `previous`, which is then the latest result; with first the runner
\* records the empty mapping itself once the expression has been written
dumpRunnerRun(r, n, first, do) ==
  LET snap == [kind |-> "dump", step |-> n, store |-> toMap(r.st),
               previous |-> IF first THEN latest(r.st) ELSE previous(r.st),
               current |-> IF first THEN None ELSE latest(r.st)]
      r1 == [r EXCEPT !.calls = Append(@, "dump"), !.evals = Append(@, snap)]
  IN IF do = "err"
     THEN [r1 EXCEPT !.err = Err("dump failed", n), !.done = TRUE]
     ELSE IF first THEN Recorded(r1, record(r1.st, <<>>)) ELSE r1

\* the dump runner of the step-fn calling dumpRunner.Run with the flag
DumpFirst(r, s, n, do, first) ==
  IF r.done \/ ~s.dump THEN r
  ELSE LET r1 == IF ~r.run THEN Recorded(r, record(r.st, <<>>)) ELSE r
           r2 == dumpRunnerRun(r1, n, first, do)
       IN IF r2.done THEN r2 ELSE [r2 EXCEPT !.run = TRUE]

\* stepFn with the dump runner of src/dump.go
stepFnDump(st, s, n, po, do, bo, to, first) ==
  LET r0 == [st |-> st, run |-> FALSE, err |-> NoErr, done |-> FALSE,
             calls |-> <<>>, rec |-> None, evals |-> <<>>]
  IN NoRunner(Test(Bind(DumpFirst(Primary(r0, s, n, po), s, n, do, first),
                        s, n, bo), s, n, to), n)

\* the step-fn of step i executes
DumpStepFn ==
  /\ pc = "idle"
  /\ i < Len(steps)
  /\ \E o \in RunnerOutcomes(steps[i + 1]) : \E first \in BOOLEAN :
       LET r == stepFnDump(store, steps[i + 1], i, o[1], o[2], o[3], o[4], first)
       IN /\ store' = r.st
          /\ calls' = r.calls
          /\ evals' = r.evals
          /\ fnCount' = [fnCount EXCEPT ![i] = @ + 1]
          /\ recordedBy' = IF r.rec # None
                           THEN [recordedBy EXCEPT ![i] = r.rec]
                           ELSE recordedBy
          /\ IF r.err # NoErr
             THEN /\ pc' = "done"
                  /\ failedStep' = Some([step |-> i, err |-> r.err])
                  /\ UNCHANGED i
             ELSE /\ pc' = "idle"
                  /\ i' = i + 1
                  /\ UNCHANGED failedStep
  /\ UNCHANGED <<useMap, skipTest, cond, steps, appendRet, skipped, runResult, j, c, k,
                 rerr, registered, result, captured, beforeCalls, afterCalls,
                 begun, failedHooks, ifResult, skippedSteps, untilTrue>>
  /\ UNCHANGED <<multi, grpc>>

\* the shapes of steps without `if` and `loop`
DumpShapes ==
  [cond : {""}, loop : {"none"}, runner : BOOLEAN, test : {FALSE},
   dump : BOOLEAN, bind : BOOLEAN]

DumpBooks == UNION { [1..n -> DumpShapes] : n \in 0..MaxSteps }

\* an operator of New in list mode with such steps
InitDump ==
  /\ useMap = FALSE
  /\ skipTest = FALSE
  /\ cond = ""
  /\ \E rawSteps \in DumpBooks : steps = NewSteps(useMap, rawSteps, Len(rawSteps))
  /\ appendRet = None
  /\ store = [steps |-> <<>>, stepMap |-> <<>>, loopIndex |-> None]
  /\ skipped = FALSE
  /\ runResult = [Err |-> NoErr, Skipped |-> FALSE]
  /\ pc = "idle"
  /\ i = 0
  /\ j = 0
  /\ c = 0
  /\ k = 0
  /\ rerr = NoErr
  /\ registered = FALSE
  /\ result = [Total |-> 0, Success |-> 0, Failure |-> 0, Skipped |-> 0]
  /\ captured = <<>>
  /\ beforeCalls = <<>>
  /\ afterCalls = <<>>
  /\ begun = <<>>
  /\ fnCount = [n \in 0..(Len(steps) - 1) |-> 0]
  /\ calls = <<>>
  /\ recordedBy = [n \in 0..(Len(steps) - 1) |-> None]
  /\ evals = <<>>
  /\ failedStep = None
  /\ failedHooks = {}
  /\ ifResult = "none"
  /\ skippedSteps = {}
  /\ untilTrue = None
  /\ bk = defaultOptions
  /\ ops = Load(bk, {})
  /\ NoRunN
  /\ NoGrpc
  /\ NoProtos

NextDump == DumpStepFn

SpecDump == InitDump /\ [][NextDump]_vars

(***************************************************************************)
(* Properties.                                                             *)
(***************************************************************************)
\* the results recorded by the steps before step n, in step order
RECURSIVE Trail(_)
Trail(n) ==
  IF n = 0 THEN <<>>
  ELSE Trail(n - 1) \o recordedBy[n - 1]

IsPrefix(a, b) == Len(a) <= Len(b) /\ SubSeq(b, 1, Len(a)) = a

AllHooks(n) == [m \in 1..n |-> m - 1]

\* C1: whenever k steps have completed without error (the step loop is
\* between two steps, or past the last one), the store holds exactly k result
\* mappings, each with the key `run`.
C1_OneResultPerCompletedStep ==
  (pc = "step" \/ (pc \in {"defer", "after", "returned", "done"} /\ registered
                     /\ failedStep = None))
    => /\ Len(slots(store)) = i
       /\ \A n \in 1..Len(slots(store)) : "run" \in DOMAIN slots(store)[n]

\* C2: once a loop step has completed N >= 1 iterations, the store holds the
\* slots of the earlier steps unchanged plus exactly one slot for the loop
\* step, which is the result recorded by the latest iteration (for a primary
\* runner: the output of iteration N - 1).
LoopSlot(n, N) ==
  /\ recordedBy[n] # None
  /\ slots(store) = Trail(n) \o recordedBy[n]
  /\ steps[n + 1].runner =>
       recordedBy[n][1] = [run |-> TRUE, res |-> [step |-> n, loopIndex |-> Some(N - 1)]]

C3_SkippedStep ==
  \A n \in skippedSteps :
    /\ fnCount[n] = 0
    /\ (Len(begun) = n + 1 => calls = <<>>)
    /\ recordedBy[n] = Some([run |-> FALSE])
    /\ IsPrefix(Trail(n + 1), slots(store))
    /\ i > n
    /\ (failedStep # None => failedStep[1].step > n)

C3_Witness ==
  /\ pc = "done" /\ skippedSteps = {0} /\ Len(steps) = 2 /\ fnCount[1] = 1
  /\ rerr = NoErr

\* C4: when the step-fn of step n returns an error, no later step is
\* executed, runResult.Err is that error, every after-hook is invoked, and the
\* run returns that error unless an after-hook failed.
C4_StepErrorStopsSteps ==
  failedStep # None =>
    LET f == failedStep[1] IN
    /\ \A m \in (f.step + 1)..(Len(steps) - 1) :
         fnCount[m] = 0 /\ recordedBy[m] = None
    /\ begun = AllHooks(f.step + 1)
    /\ (pc \in {"after", "returned", "done"} => runResult.Err = f.err)
    /\ (pc \in {"returned", "done"} =>
         /\ afterCalls = AllHooks(NumAfter)
         /\ ((\A h \in failedHooks : h[1] # "after") => rerr = f.err))

C4_Witness ==
  /\ pc = "done" /\ failedStep # None /\ failedStep[1].step = 0
  /\ failedStep[1].err.kind = "test failed"
  /\ Len(steps) = 2 /\ rerr = failedStep[1].err

\* C5: every run that is not skipped by the operator's `if` ends with every
\* after-hook invoked exactly once, in declaration order, whatever the
\* outcome of the before-hooks and of the steps.
C5_AfterHooksAlwaysRun ==
  (pc = "done" /\ beforeCalls # <<>>) => afterCalls = AllHooks(NumAfter)

\* C6: if at least one after-hook returned an error, the run returns the
\* AfterFuncError of the last failing after-hook, whatever the step error,
\* and every after-hook was invoked.
C6_AfterFuncErrorOverrides ==
  LET failed == { h[2] : h \in { x \in failedHooks : x[1] = "after" } } IN
  (pc \in {"returned", "done"} /\ failed # {}) =>
    /\ rerr = Err("AfterFuncError", CHOOSE m \in failed : \A x \in failed : x <= m)
    /\ afterCalls = AllHooks(NumAfter)

C6_Witness ==
  /\ pc = "done" /\ failedStep # None
  /\ failedHooks = {<<"after", 0>>}
  /\ rerr.kind = "AfterFuncError"

\* C7: before-hooks run in declaration order before any step; when
\* before-hook n returns an error the run returns the BeforeFuncError of
\* hook n, no later before-hook and no step is executed and nothing is
\* recorded.
C7_BeforeFuncErrorShortCircuits ==
  /\ IsPrefix(beforeCalls, AllHooks(NumBefore))
  /\ (begun # <<>> => beforeCalls = AllHooks(NumBefore))
  /\ \A h \in failedHooks : h[1] = "before" =>
       /\ pc \in {"returned", "done"}
       /\ rerr = Err("BeforeFuncError", h[2])
       /\ beforeCalls = AllHooks(h[2] + 1)
       /\ begun = <<>>
       /\ \A n \in DOMAIN fnCount : fnCount[n] = 0
       /\ store = [steps |-> <<>>, stepMap |-> <<>>, loopIndex |-> None]

C7_Witness ==
  /\ pc = "done" /\ failedHooks = {<<"before", 1>>} /\ Len(steps) > 0

\* C8: when the operator's `if` evaluates to false the operator is marked
\* skipped, the run returns no error, no hook and no step is executed, the
\* store is unchanged, and the run is counted and captured as skipped.
C8_OperatorSkipped ==
  ifResult = "false" =>
    /\ skipped
    /\ rerr = NoErr
    /\ beforeCalls = <<>>
    /\ begun = <<>>
    /\ \A n \in DOMAIN fnCount : fnCount[n] = 0
    /\ store = [steps |-> <<>>, stepMap |-> <<>>, loopIndex |-> None]
    /\ pc \in {"returned", "done"}
    /\ (pc = "done" =>
         /\ captured = <<"start", "skipped", "end">>
         /\ result = [Total |-> 1, Success |-> 0, Failure |-> 0, Skipped |-> 1])

C8_Witness ==
  pc = "done" /\ ifResult = "false" /\ Len(steps) > 0

\* C9: steps begin in declared order, one at a time, and every expression of
\* step n (condition, count, request expansion, loop predicate, side-runner
\* expression) is evaluated against a snapshot that holds the results
\* recorded by all the steps before n.
C9_EarlierResultsVisible ==
  /\ begun = AllHooks(Len(begun))
  /\ (begun # <<>> => i \in {Len(begun) - 1, Len(begun)})
  /\ \A x \in 1..Len(evals) :
       evals[x].kind # "operator if" =>
         /\ evals[x].step = Len(begun) - 1
         /\ IsPrefix(Trail(evals[x].step), slots(evals[x].store))

C9_Witness ==
  /\ i = 1 /\ evals # <<>> /\ evals[1].kind = "if" /\ evals[1].step = 1
  /\ recordedBy[0] # None /\ "res" \in DOMAIN recordedBy[0][1]

\* C10: in a loop with `until`, the predicate is evaluated after every
\* iteration against a snapshot whose `current` is the result recorded by
\* that iteration; at the first iteration where it is true the loop exits with
\* success, no further iteration runs and the step's slot is the result of
\* that iteration.
C10_UntilTrueEndsLoop ==
  /\ \A x \in 1..Len(evals) :
       evals[x].kind = "until" =>
         /\ evals[x].current = recordedBy[evals[x].step]
         /\ evals[x].current # None
         /\ evals[x].store.loopIndex = Some(fnCount[evals[x].step] - 1)
  /\ (pc = "loop" /\ steps[i + 1].loop = "until" /\ j >= 1) =>
       /\ evals # <<>>
       /\ evals[Len(evals)].kind = "until"
       /\ j = fnCount[i]
  /\ untilTrue # None =>
       LET u == untilTrue[1] IN
       /\ fnCount[u.step] = u.j + 1
       /\ i = u.step + 1
       /\ failedStep = None
       /\ latest(store) = u.current
       /\ store.loopIndex = None
       /\ steps[u.step + 1].runner =>
            u.current[1] = [run |-> TRUE, res |-> [step |-> u.step, loopIndex |-> Some(u.j)]]

C10_Witness ==
  /\ untilTrue # None /\ untilTrue[1].j = 1 /\ pc = "done" /\ rerr = NoErr

\* the error of the step that left the step loop is the retry-loop error
RetryLoopFailed(f) ==
  f # None /\ f[1].err.kind = "is not true"
           /\ f[1].err.wrap = <<"retry loop failed on">>

\* C11: a loop with `until` and count c never runs more than c iterations;
\* when `until` was false after each of the c iterations the step-fn has been
\* executed exactly c times, the step fails with the retry-loop error and no
\* later step runs; such a step succeeds only through `until` being true.
C11_RetryLoopExhausted ==
  /\ [](pc = "loop" => (fnCount[i] = j /\ j <= c))
  /\ [][(pc = "loop" /\ steps[i + 1].loop = "until" /\ j >= c) =>
          /\ fnCount[i] = c
          /\ fnCount' = fnCount
          /\ RetryLoopFailed(failedStep')
          /\ failedStep'[1].step = i
          /\ pc' = "defer"
          /\ begun' = begun]_vars
  /\ [][(pc = "loop" /\ steps[i + 1].loop = "until" /\ i' = i + 1) =>
          untilTrue' # None]_vars
  /\ [](RetryLoopFailed(failedStep) =>
          /\ begun[Len(begun)] = failedStep[1].step
          /\ steps[failedStep[1].step + 1].loop = "until"
          /\ i = failedStep[1].step)

C11_Witness ==
  /\ RetryLoopFailed(failedStep)
  /\ fnCount[failedStep[1].step] = MaxCount
  /\ failedStep[1].step + 1 < Len(steps)
  /\ pc = "done"

\* C12 as stated: once the first iteration of a loop without `until` has
\* succeeded, the step ends successfully and never with the retry-loop error.
C12_SuccessAfterFirstIteration ==
  failedStep # None =>
    LET n == failedStep[1].step IN
    steps[n + 1].loop = "count" =>
      /\ fnCount[n] < 2
      /\ ~RetryLoopFailed(failedStep)

\* C12 (amended): a loop without `until` never ends with the retry-loop
\* error; it runs the step-fn in every one of its c iterations, an error of
\* the step-fn in any iteration (the first or a later one) fails the step with
\* the "loop failed" error at once, and the step succeeds when all c
\* iterations succeeded.
C12_LoopWithoutUntil ==
  /\ [](failedStep # None =>
          LET n == failedStep[1].step IN
          steps[n + 1].loop = "count" =>
            /\ ~RetryLoopFailed(failedStep)
            /\ failedStep[1].err.kind \in {"if", "count"}
                 \/ (failedStep[1].err.wrap[1] = "loop failed" /\ fnCount[n] >= 1))
  /\ [][(pc = "loop" /\ steps[i + 1].loop = "count" /\ j >= c) =>
          /\ fnCount[i] = c
          /\ fnCount' = fnCount
          /\ i' = i + 1
          /\ pc' = "step"
          /\ failedStep' = None]_vars
  /\ [][(pc = "loop" /\ steps[i + 1].loop = "count" /\ failedStep' # None) =>
          /\ fnCount' = [fnCount EXCEPT ![i] = @ + 1]
          /\ failedStep'[1].err.wrap[1] = "loop failed"
          /\ pc' = "defer"]_vars

C12_Witness ==
  /\ failedStep # None
  /\ steps[failedStep[1].step + 1].loop = "count"
  /\ fnCount[failedStep[1].step] = 2
  /\ failedStep[1].err.wrap # <<>>
  /\ failedStep[1].err.wrap[1] = "loop failed"

\* C13: store.loopIndex is present only while a loop step executes: every
\* expression evaluated and every output recorded in iteration j sees
\* loopIndex = j, and loopIndex is nil at the start of every step, in steps
\* without loop, after a loop step has finished (success, step-fn error,
\* predicate error or exhaustion) and after the run has returned.
C13_LoopIndexOnlyInLoop ==
  /\ pc # "loop" => store.loopIndex = None
  /\ pc = "loop" => store.loopIndex = (IF j = 0 THEN None ELSE Some(j - 1))
  /\ \A x \in 1..Len(evals) :
       LET e == evals[x] IN
       IF e.kind \in {"expand", "dump", "bind", "test", "until"}
            /\ steps[e.step + 1].loop # "none"
       THEN e.store.loopIndex = Some(fnCount[e.step] - 1)
       ELSE e.store.loopIndex = None
  /\ \A n \in 0..(Len(steps) - 1) :
       (recordedBy[n] # None /\ "res" \in DOMAIN recordedBy[n][1]) =>
         LET li == recordedBy[n][1].res.loopIndex IN
         IF steps[n + 1].loop = "none" THEN li = None
         ELSE /\ li # None
              /\ li[1] < fnCount[n]
              /\ (failedStep = None \/ failedStep[1].step # n) => li[1] = fnCount[n] - 1

C13_Witness ==
  /\ pc = "step" /\ i = 1 /\ Len(steps) = 2
  /\ steps[1].loop = "until" /\ fnCount[0] = 2
  /\ failedStep = None /\ store.loopIndex = None
  /\ recordedBy[0][1].res.loopIndex = Some(1)

\* C14: during RunN the number of operators whose run has started and not
\* finished never exceeds pmax, the weight of the semaphore they hold, and
\* pmax is 1 unless running in parallel was asked for.
C14_AtMostPmaxRunning ==
  /\ ops.pmax = (IF bk.runParallel THEN bk.runParallelMax ELSE 1)
  /\ Cardinality(Running) <= ops.pmax
  /\ sem = Cardinality(Running)

C14_Witness ==
  /\ ops.pmax = 2 /\ Cardinality(Running) = 2
  /\ rpc = "range" /\ next < Len(selected)

\* C15 as stated: on every return path of RunN every operator run it started
\* has finished, so none is running when the deferred Close executes or
\* after RunN has returned.
C15_AllOperatorsAwaited ==
  /\ closedWith # None => closedWith[1] = {}
  /\ rpc = "returned" => Running = {}

\* C16 as stated: RunN returns a non-nil error if and only if some fail-fast
\* operator failed, the error is then that of the first fail-fast operator
\* that failed, and without such a failure every selected operator is started.
C16_ErrorIffFailFastFailed ==
  (rpc = "returned" /\ ret # None) =>
    /\ (ret[1] # NoErr) <=> (failedFF # <<>>)
    /\ ret[1] # NoErr => ret[1] = RunErr(failedFF[1])
    /\ failedFF = <<>> => \A n \in 1..Len(status) : status[n] # "selected"

Counted(out) == Cardinality({n \in 1..Len(outcome) : outcome[n] = out})

\* C17: Total is the number of selected operators; at every moment
\* Success + Failure + Skipped <= Total; every operator whose run has
\* finished has incremented exactly one of the three counters, the one of
\* its outcome; and when RunN returns nil the three add up to Total.
C17_CountersConsistent ==
  opsResult # None =>
    /\ opsResult.Total = Len(selected)
    /\ opsResult.Success + opsResult.Failure + opsResult.Skipped <= opsResult.Total
    /\ opsResult.Success = Counted("success")
    /\ opsResult.Failure = Counted("failure")
    /\ opsResult.Skipped = Counted("skipped")
    /\ \A n \in 1..Len(status) :
         (status[n] \in {"returning", "returned"}) <=> (outcome[n] # "none")
    /\ (rpc = "returned" /\ ret = Some(NoErr)) =>
         opsResult.Success + opsResult.Failure + opsResult.Skipped = opsResult.Total

C17_Witness ==
  /\ rpc = "returned" /\ ret = Some(NoErr) /\ ops.pmax = 2
  /\ opsResult.Total = 3
  /\ opsResult.Success = 1 /\ opsResult.Failure = 1 /\ opsResult.Skipped = 1

\* C18 as stated: after RunN has run its selected operators RunResults holds
\* one stored result per operator that was run, so the number of stored
\* results equals Total, also when the operators were chosen by `random`.
C18_OneStoredResultPerOperator ==
  (rpc = "returned" /\ ret = Some(NoErr)) =>
    Cardinality(DOMAIN opsResult.RunResults) = opsResult.Total

Members(s) == {s[x] : x \in 1..Len(s)}
NoDup(s) == \A x, y \in 1..Len(s) : s[x] = s[y] => x = y
PosIn(s, o) == CHOOSE x \in 1..Len(s) : s[x] = o

\* the list the shard stage receives
Shuffled == IF ops.shuffle THEN shuffleOperators(ops.ops, ops.shuffleSeed) ELSE ops.ops

\* C19: for N >= 1 shards of the same loaded list with the same shuffle
\* setting and seed, the lists SelectedOperators returns for the shard indexes
\* 0..N-1 are pairwise disjoint, together they are exactly the loaded list,
\* each keeps the relative order of its members, and the sizes of two shards
\* differ by at most 1.
C19_ShardsPartition ==
  /\ \A x, y \in 1..Len(shards) :
       /\ NoDup(shards[x])
       /\ Members(shards[x]) \subseteq Members(ops.ops)
       /\ x # y => Members(shards[x]) \cap Members(shards[y]) = {}
       /\ Len(shards[x]) - Len(shards[y]) <= 1
       /\ \A a, b \in 1..Len(shards[x]) :
            a < b => PosIn(Shuffled, shards[x][a]) < PosIn(Shuffled, shards[x][b])
  /\ (ops.shardN > 0 /\ Len(shards) = ops.shardN) =>
       UNION {Members(shards[x]) : x \in 1..Len(shards)} = Members(ops.ops)

C19_Witness ==
  /\ ops.shardN = 2 /\ Len(shards) = 2 /\ Len(ops.ops) = 3 /\ ops.shuffle
  /\ Len(shards[1]) = 2 /\ Len(shards[2]) = 1
  /\ shards[1] # <<ops.ops[1], ops.ops[3]>>

\* C20: the stages are applied in the order shuffle, shard, sample, random;
\* shuffle, shard and sample return only operators of the loaded list, each
\* at most once, sample k returning min(k, n) of them; random k, when it
\* returns without error, returns exactly k new operators, none of them in
\* the loaded list, each with the book path of an operator that was left by
\* the earlier stages (the same one possibly several times).
C20_SelectionStages ==
  selection # None =>
    LET r == selection[1]
        st == r.stages
    IN /\ st[1] = ops.ops
       /\ st[2] = Shuffled
       /\ Members(st[2]) = Members(st[1]) /\ Len(st[2]) = Len(st[1])
       /\ st[3] = (IF ops.shardN > 0
                   THEN partOperators(st[2], ops.shardN, ops.shardIndex) ELSE st[2])
       /\ IF ops.sample > 0
          THEN /\ Members(st[4]) \subseteq Members(st[3])
               /\ Len(st[4]) = (IF ops.sample < Len(st[3]) THEN ops.sample ELSE Len(st[3]))
          ELSE st[4] = st[3]
       /\ \A x \in 2..4 : NoDup(st[x]) /\ Members(st[x]) \subseteq Members(ops.ops)
       /\ ops.random = 0 => (r.ops = st[4] /\ r.err = NoErr /\ ~r.panic)
       /\ (ops.random > 0 /\ r.err = NoErr /\ ~r.panic) =>
            /\ Len(r.ops) = ops.random
            /\ NoDup(r.ops)
            /\ \A x \in 1..Len(r.ops) :
                 /\ r.ops[x] \notin Members(ops.ops)
                 /\ \A o \in Members(ops.ops) : o.id # r.ops[x].id
                 /\ \E o \in Members(st[4]) : o.bookPath = r.ops[x].bookPath

C20_Witness ==
  /\ selection # None
  /\ ops.shuffle /\ ops.shardN = 2 /\ ops.sample = 1 /\ ops.random = 2
  /\ Len(ops.ops) = 3
  /\ selection[1].stages[2] # ops.ops
  /\ Len(selection[1].stages[3]) = 2
  /\ Len(selection[1].ops) = 2
  /\ selection[1].ops[1].bookPath = selection[1].ops[2].bookPath

\* the last Run of the gRPC runner has returned
Returned == call.pc = "idle" /\ call.ret # None

\* the calls of kind `what` made on the stream, by the op they were made for
OpsOf(what) ==
  LET ev == SelectSeq(call.events, LAMBDA e : e.call = what)
  IN [y \in 1..Len(ev) |-> ev[y].op]

AllFields == {"status", "headers", "trailers", "message", "messages"}

\* C21: a status other than OK is never an error: in every mode, wherever in
\* the call the server answers with a status other than OK (also while a bidi
\* stream is drained after the client closed), Run returns nil, exactly one
\* result is recorded, its res.status is the status code and its res.message
\* the message of the status.  (Runs that end with a failure of the client's
\* own, an unmarshallable message, a cancelled context, a broken connection,
\* are left out.)
C21_NonOKStatusIsNoError ==
  (/\ Returned
   /\ call.answered # None
   /\ call.ret[1].kind \notin {"setMessage", "canceled", "error", "connection closing"}) =>
    /\ call.ret = Some(NoErr)
    /\ Len(call.recorded) = 1
    /\ "status" \in DOMAIN call.recorded[1].res
    /\ call.recorded[1].res["status"] = call.answered[1]
    /\ call.recorded[1].res["message"] = Text(FromError(Err(call.answered[1], 0)).message)

\* C22: every Run that returns nil, in each of the four modes, has recorded
\* exactly one result whose `res` has all five fields status, headers,
\* trailers, message and messages.
C22_ResultHasAllFields ==
  (Returned /\ call.ret = Some(NoErr)) =>
    /\ Len(call.recorded) = 1
    /\ DOMAIN call.recorded[1].res = AllFields

\* C23: in client-streaming mode `close` ops are ignored: a request of
\* `message` and `close` ops whose messages can all be set sends exactly its
\* `message` ops in order, calls CloseSend once after the op loop and does not
\* fail because of a `close` op.
C23_CloseOpsIgnored ==
  (/\ Returned
   /\ req.method = "client"
   /\ \A x \in 1..Len(req.messages) : req.messages[x] \in {"message", "close"}
   /\ call.ret[1].kind \notin {"dial", "protos", "reflection", "NewStream", "setMessage"}) =>
    /\ call.ret[1].kind # "invalid op"
    /\ OpsOf("send") = SelectSeq([x \in 1..Len(req.messages) |-> x],
                                 LAMBDA x : req.messages[x] = "message")
    /\ Len(OpsOf("closeSend")) = 1

\* the position of the first entry e of the log, 0 if there is none
FirstIn(lg, e) ==
  IF \E y \in 1..Len(lg) : lg[y] = e
  THEN CHOOSE y \in 1..Len(lg) : lg[y] = e /\ \A z \in 1..(y - 1) : lg[z] # e
  ELSE 0

\* a bidi-streaming Run has returned nil and no Run has started since
BidiReturnedNil == Returned /\ req.method = "bidi" /\ call.ret = Some(NoErr)

\* C24: after a bidi-streaming Run returns nil the runner's connection and
\* reflection client are nil, the connection having been closed before the
\* trailers were read; the next Run on the runner dials a new connection
\* before anything else and keeps the method table, resolving nothing by
\* reflection.
C24_BidiLeavesNoConnection ==
  /\ [](BidiReturnedNil =>
          /\ rnr.cc = None
          /\ rnr.refc = None
          /\ FirstIn(call.log, "connection closed") > 0
          /\ FirstIn(call.log, "connection closed") < FirstIn(call.log, "trailers"))
  /\ [][(BidiReturnedNil /\ nrun' = nrun + 1) =>
          /\ call'.log # <<>>
          /\ call'.log[1] = "dial"
          /\ FirstIn(call'.log, "reflection") = 0
          /\ rnr'.mds = rnr.mds
          /\ (call'.ret = None =>
                /\ rnr'.cc = Some(Len(conns) + 1)
                /\ conns'[rnr'.cc[1]] = 0)]_vars

C24_Witness ==
  /\ nrun = 2
  /\ call.pc = "bidi ops"
  /\ closeRets = <<>>
  /\ Len(conns) = 2
  /\ conns[1] = 1
  /\ rnr.cc = Some(2)

\* C25: the connection is opened by the Runs that find it nil, and Close is
\* idempotent and leaves the connection nil: whatever the number of Close
\* calls a connection is closed once, no Close returns an error, and no Run
\* calls a closed connection (a Run after Close dials a new one).
C25_CloseIdempotent ==
  /\ \A n \in 1..Len(conns) : conns[n] <= 1
  /\ \A x \in 1..Len(closeRets) : closeRets[x] = NoErr
  /\ \A y \in 1..Len(call.log) :
       call.log[y] \notin {"Invoke on a closed connection", "NewStream on a closed connection"}

\* C28: in client-streaming mode a send that reports cancellation or EOF ends
\* the op loop: no message declared after it is marshalled or sent.
C28_ClientSendFailureEndsOps ==
  req.method = "client" =>
    \A y \in 1..Len(call.events) :
      (call.events[y].call = "send" /\ call.events[y].out \in {"canceled", "eof"}) =>
        \A z \in (y + 1)..Len(call.events) : call.events[z].call \notin {"setMessage", "send"}

\* the OK messages received so far, in arrival order
Arrived == [n \in 1..call.recvd |-> Msg(n)]

\* C29: in server-streaming mode every OK message is appended to messages in
\* arrival order and becomes message; the receive loop ends at the first EOF,
\* cancellation or status other than OK, without error; after a status other
\* than OK message is the text of the status and messages the OK messages
\* received before; exactly one result is recorded, after the loop.
C29_ServerStreamingReceives ==
  /\ call.pc = "server receive" =>
       /\ call.ended = None
       /\ call.recorded = <<>>
       /\ call.messages = Arrived
       /\ call.d["message"] = (IF call.recvd = 0 THEN Nil ELSE Msg(call.recvd))
  /\ (Returned /\ req.method = "server" /\ call.ended # None) =>
       /\ ~call.afterEnd
       /\ call.messages = Arrived
       /\ IF call.ended[1] = "error"
          THEN call.ret = Some(Err("error", 0)) /\ call.recorded = <<>>
          ELSE /\ call.ret = Some(NoErr)
               /\ Len(call.recorded) = 1
               /\ call.recorded[1].res["messages"] = Arrived
               /\ call.recorded[1].res["message"] =
                    (IF call.ended[1] = "status" THEN Text("not found")
                     ELSE IF call.recvd = 0 THEN Nil ELSE Msg(call.recvd))

C29_Witness ==
  /\ Returned
  /\ req.method = "server"
  /\ call.ended = Some("status")
  /\ call.recvd = 2
  /\ Len(call.recorded) = 1

\* the call at position y of the events ends the op loop of the bidi mode
EndsOps(y) ==
  LET e == call.events[y]
  IN e.op > 0 /\ (e.call = "closeSend" \/ (e.call \in {"send", "recv"} /\ e.out \in {"canceled", "eof"}))

\* C30: in bidi-streaming mode the ops are processed in declared order and
\* the op loop ends at the first `close` op and at the first send or receive
\* that reports cancellation or EOF: no op declared after it is executed, and
\* nothing is sent on the stream after the CloseSend of a `close` op.
C30_BidiOpsInOrder ==
  req.method = "bidi" =>
    /\ \A y \in 1..Len(call.events), z \in 1..Len(call.events) :
         (y < z /\ call.events[z].op > 0) =>
            /\ call.events[y].op <= call.events[z].op
            /\ call.events[z].op <= call.events[z - 1].op + 1
            /\ EndsOps(y) => call.events[z].op = 0
    /\ \A y \in 1..Len(call.events) :
         /\ call.events[y].op > 0 => req.messages[call.events[y].op] =
              (CASE call.events[y].call = "closeSend" -> "close"
                 [] call.events[y].call = "recv" -> "receive"
                 [] OTHER -> "message")
         /\ (y = 1 /\ call.events[y].op > 0) => call.events[y].op = 1
         /\ call.events[y].call = "closeSend" =>
              \A z \in (y + 1)..Len(call.events) : call.events[z].call # "send"

C30_Witness ==
  /\ Returned
  /\ req.method = "bidi"
  /\ call.ret = Some(NoErr)
  /\ req.messages = <<"close", "message">>
  /\ Len(call.recorded) = 1

\* C26: proto registration is idempotent: a second call of
\* resolveAllMethodsUsingProtos with the same inputs returns what the first
\* returned (no error after no error) and leaves the method table and the
\* descriptor registry as the first call left them.
C26_RegistrationIdempotent ==
  \A n \in 2..Len(protoHist) : protoHist[n] = protoHist[1]

C26_Witness ==
  /\ Len(protoHist) = 2
  /\ protoHist[1].err = NoErr
  /\ Cardinality(GlobalFiles) = 2
  /\ \E n \in 1..Len(fds) : fds[n] \notin GlobalFiles

\* C27: whenever a dump expression is evaluated the snapshot carries both
\* `previous` and `current`, `current` being the result recorded for the
\* step being executed and `previous` the result recorded for the step
\* before it; and a dump in a step without a primary runner makes the step
\* record exactly one {run: true} mapping.
C27_DumpSnapshot ==
  /\ [](\A x \in 1..Len(evals) :
          evals[x].kind = "dump" =>
            /\ evals[x].current # None
            /\ evals[x].current = recordedBy[evals[x].step]
            /\ evals[x].previous = IF evals[x].step = 0 THEN None
                                   ELSE recordedBy[evals[x].step - 1])
  /\ [][(/\ pc = "idle"
         /\ i < Len(steps)
         /\ ~steps[i + 1].runner
         /\ steps[i + 1].dump
         /\ i' = i + 1)
        => /\ Len(slots(store')) = Len(slots(store)) + 1
           /\ recordedBy'[i] = Some(setRun(<<>>, TRUE))]_vars

\* the positions of invokeBidiStreaming
BidiPcs == {"bidi", "bidi ops", "bidi after ops", "bidi drain closed", "bidi drain", "bidi close"}

\* C31: every bidi-streaming invocation terminates, each send and receive
\* returning and the server ending the stream with EOF, cancellation or a
\* status other than OK: neither the op loop nor a drain loop iterates for
\* ever once the stream has ended.
C31_BidiTerminates == (call.pc \in BidiPcs) ~> (call.pc = "idle")

\* C32: in every streaming mode the recorded res.messages is the full list,
\* in arrival order, of the OK messages the client received during the call,
\* those received while a bidi stream is drained included, and res.message is
\* the last of them when the final status is OK.
C32_MessagesComplete ==
  (/\ Returned
   /\ req.method \in {"server", "client", "bidi"}
   /\ call.ret = Some(NoErr)) =>
    /\ Len(call.recorded) = 1
    /\ call.recorded[1].res["messages"] = Arrived
    /\ ("status" \in DOMAIN call.recorded[1].res /\ call.recorded[1].res["status"] = "OK") =>
         call.recorded[1].res["message"] = (IF call.recvd = 0 THEN Nil ELSE Msg(call.recvd))

\* C33: registration into the process-wide registry is safe under
\* concurrency: when runners of parallel operators resolve the same files,
\* by protos or by reflection, then in every interleaving no runner fails
\* because of the registration, every file is registered once and every
\* runner's method table is complete.
C33_ParallelRegistration ==
  /\ \A p \in Runners :
       par[p].pc = "done" => par[p].err = NoErr /\ par[p].mds = methodKeys(fds)
  /\ (\A p \in Runners : par[p].pc = "done") =>
       GlobalFiles = {fds[n] : n \in 1..Len(fds)}

\* C34: in map mode every entry of stepMap is stored under the key of the
\* step that produced it: when the steps 0..i-1 have completed, the keys of
\* stepMap are the keys of these steps and stepMap[steps[n].key] is the
\* result of step n, whatever steps were skipped, had side-runners only or
\* were loops (a loop whose count evaluates to 0 included).
C34_MapKeysAreStepKeys ==
  (/\ useMap
   /\ (pc = "step" \/ (pc \in {"defer", "after", "returned", "done"} /\ registered
                         /\ failedStep = None)))
    => /\ DOMAIN store.stepMap = {steps[n].key : n \in 1..i}
       /\ \A n \in 0..(i - 1) :
            /\ recordedBy[n] # None
            /\ store.stepMap[steps[n + 1].key] = recordedBy[n][1]

\* the place of a runner in the step-fn
Rank(x) == CASE x = "runner" -> 1 [] x = "dump" -> 2 [] x = "bind" -> 3 [] OTHER -> 4

\* the evaluations the runners of the latest step-fn execution made
FnEvals == SelectSeq(evals, LAMBDA e : e.kind \in {"expand", "dump", "bind", "test"})

\* the runner that makes an evaluation, the runner that returns an error
CallOf(kind) == IF kind = "expand" THEN "runner" ELSE kind
FailedCall(kind) ==
  CASE kind = "runner failed" -> "runner"
    [] kind = "dump failed" -> "dump"
    [] kind = "bind failed" -> "bind"
    [] OTHER -> "test"

\* C35: within one execution of a step-fn the primary runner, if any, runs
\* first, then dump, then bind, then test, each at most once; with a primary
\* runner the side-runners add no record of their own and read the record of
\* the primary; a failure of a runner keeps the later ones of the step from
\* running; and with skipTest the test condition is never evaluated and
\* cannot fail the step.
C35_StepFnOrder ==
  /\ \A x, y \in 1..Len(calls) : x < y => Rank(calls[x]) < Rank(calls[y])
  /\ (calls # <<>> /\ steps[Len(begun)].runner) => calls[1] = "runner"
  /\ FnEvals # <<>> => [x \in 1..Len(FnEvals) |-> CallOf(FnEvals[x].kind)] = calls
  /\ \A x \in 1..Len(FnEvals) :
       LET e == FnEvals[x] IN
       (e.kind # "expand" /\ steps[e.step + 1].runner) =>
         /\ latest(e.store) = Some(setRun(Output(e.step, e.store.loopIndex), TRUE))
         /\ slots(e.store) = slots(store)
         /\ e.kind # "bind" => e.current = latest(e.store)
  /\ (/\ failedStep # None
      /\ failedStep[1].err.kind \in {"runner failed", "dump failed", "bind failed", "test failed"})
       => /\ calls # <<>>
          /\ calls[Len(calls)] = FailedCall(failedStep[1].err.kind)
  /\ skipTest =>
       /\ \A x \in 1..Len(calls) : calls[x] # "test"
       /\ \A x \in 1..Len(evals) : evals[x].kind # "test"
       /\ failedStep # None => failedStep[1].err.kind # "test failed"

C35_Witness ==
  /\ ~skipTest
  /\ calls = <<"runner", "dump", "bind", "test">>
  /\ failedStep # None
  /\ failedStep[1].err.kind = "test failed"
  /\ Len(FnEvals) = 4

\* C36: the RunResult of an operator agrees with the error its run returns:
\* when runInternal has returned an error (of the operator's condition, of a
\* before-hook, of a step or of an after-hook) Result().Err is not nil, and
\* when it has returned nil Result().Err is nil.
C36_ResultErrAgrees ==
  pc \in {"returned", "done"} => (runResult.Err # NoErr <=> rerr # NoErr)

\* C37: the RunResult of an operator is marked skipped exactly when the
\* operator is skipped: after the run Result().Skipped is operator.Skipped(),
\* also for an operator skipped by its `if` condition.
C37_ResultSkippedAgrees ==
  pc \in {"returned", "done"} => runResult.Skipped = skipped

\* the store of an operator of New
EmptyStore == [steps |-> <<>>, stepMap |-> <<>>, loopIndex |-> None]

\* C38: RunN can be invoked again on the same operators: every invocation
\* starts each operator from the same initial state, and at the end of each
\* invocation the store of an operator holds exactly one result per step it
\* executed in that invocation (no results of an earlier invocation).
C38_RunNAgain ==
  /\ pc = "idle" => store = EmptyStore /\ ~skipped
  /\ pc = "done" =>
       Len(slots(store)) = Cardinality({n \in DOMAIN recordedBy : recordedBy[n] # None})

\* C39: SelectedOperators returns a list or an error and never panics, for
\* every configuration of the stages, also when the list that reaches the
\* random stage is empty while random > 0.
C39_SelectedOperatorsTotal ==
  selection # None => ~selection[1].panic

\* the fields of a step AppendStep appends
WellFormedStep(st, key) ==
  /\ st.key = key
  /\ st.cond \in {"", "c"}
  /\ st.loop \in {"none", "count", "until"}
  /\ st.runner \in BOOLEAN /\ st.test \in BOOLEAN /\ st.dump \in BOOLEAN /\ st.bind \in BOOLEAN

\* C40: AppendStep is total: it appends exactly one well-formed step, or it
\* returns an error and leaves the steps as they were, and it never panics.
\* A `dump` mapping with `expr` but no `out` is accepted (dump to stdout), and
\* a step that names a runner key that is not declared is rejected with an
\* error.
C40_AppendStepTotal ==
  appendRet # None =>
    LET a == appendRet[1] IN
    /\ ~a.panic
    /\ a.err = NoErr =>
         /\ Len(steps) = Len(a.before) + 1
         /\ SubSeq(steps, 1, Len(a.before)) = a.before
         /\ WellFormedStep(steps[Len(steps)], a.key)
    /\ a.err # NoErr => steps = a.before
    /\ ( /\ a.s.dump = [kind |-> "map", expr |-> "string", out |-> "absent"]
         /\ a.s.if = "absent" /\ a.s.desc = "absent" /\ a.s.loop = "absent"
         /\ a.s.retry = "absent" /\ a.s.test = "absent" /\ a.s.bind = "absent"
         /\ a.kv = None )
       => a.err = NoErr /\ steps[Len(steps)].dump
    /\ (a.kv # None /\ a.kv[1] \notin Declared \cup {"include", "exec"}) => a.err # NoErr

====
